---- MODULE Spec2Model ----
(***************************************************************************)
(* Model of the bach-mcp bridge: the inbound message queue of              *)
(* BachMCPServer (server.py), the outbound TCPSend connection (tcp.py) and *)
(* the send-and-wait callers (_request_max_and_wait in mcp_app.py, the     *)
(* ToolExecutor query tools in ollama_bridge.py).                          *)
(*                                                                         *)
(* Time is discrete.  One tick is half a poll slice, so the 0.25 s slice   *)
(* of wait_for_incoming is PollSlice = 2 ticks.  A thread that is inside   *)
(* the wait loop and is not blocked runs with a scheduling latency of at   *)
(* most MaxLag ticks per loop iteration, charged where it can be observed  *)
(* (before the clock is read, before Event.wait starts its timeout); a     *)
(* thread blocked in Event.wait lets time pass until its timeout expires   *)
(* or the event is set.  The program reads the clock only inside           *)
(* wait_for_incoming and uses only differences of readings, so the clock   *)
(* stands still, and is restarted, whenever no thread is inside a call.    *)
(***************************************************************************)
EXTENDS Integers, Sequences, FiniteSets, TLC

\* ---------------------------------------------------------------- bounds
\* deque(maxlen=500) of server.py:71, scaled down
Capacity == 3
\* number of top-level calls a consumer thread makes when it only pops, peeks,
\* sizes and flushes
MaxCalls == 3
\* number of top-level calls a consumer thread makes when it also waits
MaxWaitCalls == 2
\* the largest timeout_seconds argument, in ticks
MaxTimeout == 3
\* number of events of a run (lines received plus calls started) when the
\* consumer only pops, peeks, sizes and flushes
MaxEvents == 6
\* number of events of a run when the consumer also waits
MaxWaitEvents == 5
\* number of events of a run with several consumers
MaxConcurrentEvents == 4
\* number of calls made on the outbound connection (send, close, stop)
MaxSends == 3
\* bytes the engine sends in a run, over all its connections
MaxBytes == 3
\* calls of stop() in a run
MaxStops == 2
\* words of a line given to the classifier
MaxLine == 4
\* members and stray words between the braces of an envelope
MaxMembers == 3
\* words of a plain line, and members of an envelope, sent whole to the reader
MaxDispatch == 2
\* times the engine sends the line on one connection
MaxRepeat == 2
\* socket objects TCPSend creates, the one of __init__ included
MaxSockets == 3
\* calls of send() and close() one thread makes
MaxClientCalls == 2
\* words of a score given to send_score_to_max
MaxScore == 4

\* ------------------------------------------------------------- constants
\* min(remaining, 0.25) of server.py:170, in ticks
PollSlice == 2
\* scheduling latency of one iteration of the wait loop, in ticks
MaxLag == PollSlice \div 2
\* number of lines the listener hands to _handle_incoming_message: enough to
\* overflow the deque
MaxPush == Capacity + 1
\* horizon of the clock: room for the longest wait
MaxTime == MaxLag + MaxTimeout + PollSlice

Kinds == {"llll", "info"}
NoFilter == "None"
Filters == Kinds \cup {NoFilter}
\* timeout_seconds arguments, in ticks
Timeouts == {0, MaxTimeout}
\* timeout_seconds arguments that ask for no waiting
NoWaitTimeouts == {-1, 0}
Callers == {"A", "B"}
\* messages handed to send_info / send_score
Payloads == {"play", "dump body"}
\* the connections the engine may open to the listener
Conns == {1, 2}
\* what the engine sends: a character of a line, or the line terminator
Bytes == {"x", "\n"}
\* the characters str.strip() removes
Whitespace == {" ", "\n"}
\* the words of a line that is no envelope; a word stands for its characters
Words == {" ", "[", "]", "roll", "ROLL", "x"}
\* the members of a JSON object, each standing for its text: its key, the
\* str() of its value, whether the value is truthy, whether it is hashable
JsonMember ==
    [T_llll |-> [key |-> "type", str |-> <<" ", "LLLL", " ">>, truthy |-> TRUE, hashable |-> TRUE],
     T_info |-> [key |-> "type", str |-> <<"info">>, truthy |-> TRUE, hashable |-> TRUE],
     T_note |-> [key |-> "type", str |-> <<"x">>, truthy |-> TRUE, hashable |-> TRUE],
     T_null |-> [key |-> "type", str |-> <<"None">>, truthy |-> FALSE, hashable |-> TRUE],
     T_list |-> [key |-> "type", str |-> <<"[", "llll", "]">>, truthy |-> TRUE, hashable |-> FALSE],
     D_list |-> [key |-> "data", str |-> <<"[", "x", "]">>, truthy |-> TRUE, hashable |-> FALSE],
     D_null |-> [key |-> "data", str |-> <<"None">>, truthy |-> FALSE, hashable |-> TRUE],
     M_text |-> [key |-> "message", str |-> <<"x">>, truthy |-> TRUE, hashable |-> TRUE]]
Members == DOMAIN JsonMember
\* a key the object does not have
Absent == [key |-> "absent", str |-> <<>>, truthy |-> FALSE, hashable |-> TRUE]

\* None, as returned by pop_next_incoming / get_latest_incoming / wait_for_incoming
NoneMsg == [id |-> 0, type |-> "none"]
\* BridgeMessage: id stands for the content (data, raw) of the n-th line received
BridgeMessage(n, k) == [id |-> n, type |-> k]

VARIABLES
    queue,      \* _incoming_messages, oldest first
    event,      \* _incoming_event is set
    seq,        \* number of messages appended so far
    now,        \* time.time()
    sender,     \* TCPSend: [sock, connected]
    threads,    \* the consumer threads that run
    conf,       \* [calls: calls a thread makes, events: lines received plus calls
                \*  started, history: pushed/log/flushed/evicted kept, timing:
                \*  tmo/elapsed of a timeout kept, marks: mark/popMark/arrived/
                \*  lastTimeout/flushMark kept]
    pc,         \* per thread: position in its current call
    op,         \* per thread: the top-level call it is in
    mtype,      \* per thread: message_type argument
    tmo,        \* per thread: timeout_seconds argument
    deadline,   \* per thread: local deadline of wait_for_incoming
    remaining,  \* per thread: local remaining of wait_for_incoming
    wakeAt,     \* per thread: when its Event.wait times out
    woken,      \* per thread: notified by Event.set while blocked
    lag,        \* per thread: ticks elapsed in the current loop iteration
    ret,        \* per thread: result of its last completed call
    calls,      \* per thread: number of calls started
    \* history variables
    pushed,     \* kinds of the messages appended, in order
    log,        \* messages returned by consuming reads, in order
    flushed,    \* ids discarded by flush_incoming
    evicted,    \* ids dropped by the deque on overflow
    start,      \* per thread: time at which wait_for_incoming began
    mark,       \* per thread: seq when the current query flushed / sent
    popMark,    \* per thread: seq at its last pop inside wait_for_incoming
    arrived,    \* per thread: a matching message was pushed before the deadline
    lastTimeout, \* per thread: its last wait that timed out: [op, seq, call, tmo, elapsed]
    flushMark,  \* seq at the last flush_incoming
    net,        \* history of the outbound connection: [calls, attempts, found,
                \*  wire, last]
    life,       \* BachMCPServer: [running, stopping: a stop() is between its two
                \*  steps, stops: calls of stop() that returned]
    server,     \* TCPServer: [running, socket: server_socket, pc: position of the
                \*  accept thread]
    conn,       \* per connection: [st, fin, pc, sent, rd, todo, handed, eof]
    origin,     \* per appended message: [conn, at] where its text began
    line,       \* a raw line given to _handle_incoming_message
    parsed,     \* what _parse_incoming made of it: [type, data, raw]
    score,      \* score_llll: the argument a tool is called with
    client,     \* TCPSend, statement by statement: [socket: the socket object
                \*  self.socket names (0: None), connected: the flag, made:
                \*  sockets created, st: state of each socket object, lastOk:
                \*  the socket of the most recent connect() that succeeded]
    inCall,     \* per thread: [pc: position inside send() / close(), calls, ok:
                \*  what its last send returned]
    tool        \* the tool call in progress: [pc, name, step: commands done,
                \*  tried: the commands handed to the sender, results: 'ok' of
                \*  each step, out: what the tool returned]

qvars == <<queue, event, seq>>
\* what the queue operations never touch
lvars == <<life, server, conn, origin>>
pvars == <<line, parsed>>
\* what the tools of the MCP application keep
\* TCPSend with the threads inside its methods
xvars == <<client, inCall>>
tvars == <<score, tool, xvars>>
cvars == <<threads, conf, net, lvars, pvars, tvars>>
evars == <<sender, cvars>>
hvars == <<pushed, log, flushed, evicted, mark, popMark, arrived, lastTimeout, flushMark>>
\* what the listener's threads and stop() leave alone, the queue apart
nvars == <<now, threads, conf, pc, op, mtype, tmo, deadline, remaining, wakeAt, lag,
           ret, calls, log, flushed, start, mark, popMark, lastTimeout, flushMark>>
kvars == <<pushed, log, flushed, evicted, lastTimeout, flushMark>>
\* what the methods of TCPSend, taken statement by statement, leave alone
ovars == <<qvars, now, sender, threads, conf, net, lvars, pvars, score, tool, pc, op,
           mtype, tmo, deadline, remaining, wakeAt, woken, lag, ret, calls, start, hvars>>
vars == <<queue, event, seq, now, sender, threads, conf, pc, op, mtype, tmo, deadline,
          remaining, wakeAt, woken, lag, ret, calls, pushed, log, flushed, evicted,
          start, mark, popMark, arrived, lastTimeout, flushMark, net, life, server,
          conn, origin, line, parsed, score, tool, client, inCall>>

\* ------------------------------------------------------- pure operations
\* the size of a number, sign dropped
Magnitude(t) == IF t > 0 THEN t ELSE 0 - t

Max0(t) == IF t > 0 THEN t ELSE 0
Min(a, b) == IF a < b THEN a ELSE b

\* a removal that takes along everything in front of position i
DropThrough(q, i) == SubSeq(q, i + 1, Len(q))

RemoveAt(q, i) == SubSeq(q, 1, i - 1) \o SubSeq(q, i + 1, Len(q))

\* a search that stops at the newest message whose type is f
NewestIndex(q, f) ==
    IF \E i \in 1..Len(q) : q[i].type = f
    THEN CHOOSE i \in 1..Len(q) :
             q[i].type = f /\ \A j \in (i + 1)..Len(q) : q[j].type # f
    ELSE 0

\* a search that looks at the oldest message only
HeadIndex(q, f) == IF q # <<>> /\ q[1].type = f THEN 1 ELSE 0

\* enumerate(...): index of the first message whose type is f, 0 when none
FirstIndex(q, f) ==
    IF \E i \in 1..Len(q) : q[i].type = f
    THEN CHOOSE i \in 1..Len(q) :
             q[i].type = f /\ \A j \in 1..(i - 1) : q[j].type # f
    ELSE 0

\* reversed(...): index of the last message whose type is f, 0 when none
LastIndex(q, f) ==
    IF \E i \in 1..Len(q) : q[i].type = f
    THEN CHOOSE i \in 1..Len(q) :
             q[i].type = f /\ \A j \in (i + 1)..Len(q) : q[j].type # f
    ELSE 0

\* a pop that takes the newest message (deque.pop instead of deque.popleft)
PopNewest(q, ev, f) ==
    IF q = <<>> THEN [val |-> NoneMsg, queue |-> q, event |-> FALSE]
    ELSE [val |-> q[Len(q)], queue |-> SubSeq(q, 1, Len(q) - 1),
          event |-> IF Len(q) = 1 THEN FALSE ELSE ev]

\* a pop that hands out the oldest message and leaves it in the queue
PopKeeping(q, ev, f) ==
    IF q = <<>> THEN [val |-> NoneMsg, queue |-> q, event |-> FALSE]
    ELSE [val |-> Head(q), queue |-> q, event |-> ev]

\* a pop that clears the signal whenever it returns nothing
PopClearing(q, ev, f) ==
    IF q = <<>> THEN [val |-> NoneMsg, queue |-> q, event |-> FALSE]
    ELSE IF f = NoFilter
         THEN [val |-> Head(q), queue |-> Tail(q),
               event |-> IF Tail(q) = <<>> THEN FALSE ELSE ev]
         ELSE LET i == FirstIndex(q, f) IN
              IF i = 0 THEN [val |-> NoneMsg, queue |-> q, event |-> FALSE]
              ELSE [val |-> q[i], queue |-> RemoveAt(q, i),
                    event |-> IF RemoveAt(q, i) = <<>> THEN FALSE ELSE ev]

\* body of pop_next_incoming under the lock
PopNext(q, ev, f) ==
    IF q = <<>> THEN [val |-> NoneMsg, queue |-> q, event |-> FALSE]
    ELSE IF f = NoFilter
         THEN [val |-> Head(q), queue |-> Tail(q),
               event |-> IF Tail(q) = <<>> THEN FALSE ELSE ev]
         ELSE LET i == FirstIndex(q, f) IN
              IF i = 0 THEN [val |-> NoneMsg, queue |-> q, event |-> ev]
              ELSE [val |-> q[i], queue |-> RemoveAt(q, i),
                    event |-> IF RemoveAt(q, i) = <<>> THEN FALSE ELSE ev]

\* a peek that scans from the oldest message
GetOldest(q, f) ==
    IF q = <<>> THEN NoneMsg
    ELSE IF f = NoFilter THEN q[1]
         ELSE LET i == FirstIndex(q, f) IN IF i = 0 THEN NoneMsg ELSE q[i]

\* body of get_latest_incoming under the lock
GetLatest(q, f) ==
    IF q = <<>> THEN NoneMsg
    ELSE IF f = NoFilter THEN q[Len(q)]
         ELSE LET i == LastIndex(q, f) IN IF i = 0 THEN NoneMsg ELSE q[i]

\* an append that refuses the new message when the deque is full
AppendUnlessFull(q, m) ==
    IF Len(q) >= Capacity THEN q ELSE Append(q, m)

\* deque(maxlen=Capacity).append
DequeAppend(q, m) ==
    IF Len(q) >= Capacity THEN Append(Tail(q), m) ELSE Append(q, m)

\* a flush that spares the newest message
FlushAllButNewest(q) ==
    IF q = <<>> THEN [count |-> 0, queue |-> q, event |-> FALSE]
    ELSE [count |-> Len(q) - 1, queue |-> <<q[Len(q)]>>, event |-> TRUE]

\* a flush that counts the messages and discards none
FlushNothing(q) == [count |-> Len(q), queue |-> q, event |-> q # <<>>]

\* body of flush_incoming under the lock
FlushAll(q) == [count |-> Len(q), queue |-> <<>>, event |-> FALSE]

\* TCPSend.connect: a new socket, connected or not
TcpConnect(s, connOk) ==
    IF connOk THEN [sock |-> "open", connected |-> TRUE]
    ELSE [sock |-> "unconnected", connected |-> FALSE]

\* a send that connects anew on every call
TcpSendReconnecting(s, connOk, writeOk) ==
    LET s1 == TcpConnect(s, connOk)
        wrote == s1.sock = "open" /\ writeOk
    IN [sender |-> IF wrote THEN s1 ELSE [s1 EXCEPT !.connected = FALSE],
        ok |-> wrote, tried |-> TRUE, raised |-> FALSE]

\* a send whose failed connect attempt lets its error out to the caller
TcpSendRaising(s, connOk, writeOk) ==
    LET tried == ~s.connected
        s1 == IF tried THEN TcpConnect(s, connOk) ELSE s
        wrote == s1.sock = "open" /\ writeOk
    IN [sender |-> IF wrote THEN s1 ELSE [s1 EXCEPT !.connected = FALSE],
        ok |-> wrote, tried |-> tried, raised |-> tried /\ ~connOk]

\* a send that leaves the connected flag alone when the write fails
TcpSendKeepingFlag(s, connOk, writeOk) ==
    LET tried == ~s.connected
        s1 == IF tried THEN TcpConnect(s, connOk) ELSE s
        wrote == s1.sock = "open" /\ writeOk
    IN [sender |-> s1, ok |-> wrote, tried |-> tried, raised |-> FALSE]

\* TCPSend.send: one connect attempt when not connected, then the write; both
\* are inside try / except Exception, so nothing is raised
TcpSend(s, connOk, writeOk) ==
    LET tried == ~s.connected
        s1 == IF tried THEN TcpConnect(s, connOk) ELSE s
        wrote == s1.sock = "open" /\ writeOk
    IN [sender |-> IF wrote THEN s1 ELSE [s1 EXCEPT !.connected = FALSE],
        ok |-> wrote, tried |-> tried, raised |-> FALSE]

\* TCPSend.close
\* a close that lets go of the socket only when the connection is up
TcpCloseConnected(s) ==
    IF s.connected THEN [sock |-> "closed", connected |-> FALSE] ELSE s

TcpClose(s) ==
    IF s.sock # "none" THEN [sock |-> "closed", connected |-> FALSE] ELSE s

\* str.lstrip(), str.rstrip(), str.strip() on a string given as its characters
RECURSIVE LStrip(_)
LStrip(s) == IF s # <<>> /\ Head(s) \in Whitespace THEN LStrip(Tail(s)) ELSE s

RECURSIVE RStrip(_)
RStrip(s) ==
    IF s # <<>> /\ s[Len(s)] \in Whitespace THEN RStrip(SubSeq(s, 1, Len(s) - 1)) ELSE s

Strip(s) == RStrip(LStrip(s))

\* number of characters strip() removes at the front
Lead(s) == Len(s) - Len(LStrip(s))

\* s.split('\n') keeping, with every piece, the position of its first
\* character; base is the position before s
RECURSIVE SplitLines(_, _)
SplitLines(s, base) ==
    LET nl == {i \in 1..Len(s) : s[i] = "\n"} IN
    IF nl = {} THEN <<[text |-> s, at |-> base + 1]>>
    ELSE LET i == CHOOSE j \in nl : \A k \in nl : j <= k IN
         <<[text |-> SubSeq(s, 1, i - 1), at |-> base + 1]>>
             \o SplitLines(SubSeq(s, i + 1, Len(s)), base + i)

\* the pieces that are not blank, each stripped
RECURSIVE NonBlank(_)
NonBlank(ps) ==
    IF ps = <<>> THEN <<>>
    ELSE LET h == Head(ps) IN
         (IF Strip(h.text) # <<>>
          THEN <<[text |-> Strip(h.text), at |-> h.at + Lead(h.text)]>>
          ELSE <<>>) \o NonBlank(Tail(ps))

\* the messages of one recv() taken last piece first
MessagesNewestFirst(data, base) ==
    LET ms == NonBlank(SplitLines(Strip(data), base + Lead(data)))
    IN [i \in 1..Len(ms) |-> ms[Len(ms) + 1 - i]]

\* the messages _handle_client takes from the data of one recv(): the data
\* is stripped, split at newlines, and every non-blank piece is stripped
MessagesOf(data, base) == NonBlank(SplitLines(Strip(data), base + Lead(data)))

\* str.lower(), str.startswith(), str.endswith()
Lower(s) ==
    [i \in 1..Len(s) |->
        CASE s[i] = "ROLL" -> "roll"
          [] s[i] = "LLLL" -> "llll"
          [] OTHER -> s[i]]

StartsWith(s, pre) == Len(s) >= Len(pre) /\ SubSeq(s, 1, Len(pre)) = pre

EndsWith(s, suf) == Len(s) >= Len(suf) /\ SubSeq(s, Len(s) - Len(suf) + 1, Len(s)) = suf

\* a classifier that accepts a line for its opening bracket alone
LooksLikeOpening(text) ==
    LET stripped == Strip(text) IN
    \/ StartsWith(stripped, <<"[">>)
    \/ StartsWith(Lower(stripped), <<"roll", " ", "[">>)

\* the loop of _validate_llll: the depth at the end of s, or -1 at the first
\* closing bracket that takes it below zero
RECURSIVE ScanDepth(_, _)
ScanDepth(s, depth) ==
    IF s = <<>> THEN depth
    ELSE IF Head(s) = "[" THEN ScanDepth(Tail(s), depth + 1)
    ELSE IF Head(s) = "]"
         THEN IF depth - 1 < 0 THEN -1 ELSE ScanDepth(Tail(s), depth - 1)
    ELSE ScanDepth(Tail(s), depth)

\* _validate_llll returned None
NoError == "None"

\* a validation that compares the numbers of brackets only
ValidateBalance(s) ==
    LET opens == Cardinality({i \in 1..Len(s) : s[i] = "["})
        closes == Cardinality({i \in 1..Len(s) : s[i] = "]"})
    IN IF opens # closes THEN "unclosed"
       ELSE IF \E i \in 1..Len(s) : s[i] \in {"{", "}"} THEN "illegal"
       ELSE NoError

\* _validate_llll: the kind of error message, or None
ValidateLlll(s) ==
    LET depth == ScanDepth(s, 0) IN
    IF depth < 0 THEN "negative"
    ELSE IF depth # 0 THEN "unclosed"
    ELSE IF \E i \in 1..Len(s) : s[i] \in {"{", "}"} THEN "illegal"
    ELSE NoError

\* score_llll[4:].strip() if score_llll.lower().startswith("roll") else score_llll
ScoreBody(stripped) ==
    IF StartsWith(Lower(stripped), <<"roll">>) THEN Strip(Tail(stripped)) ELSE stripped

\* _looks_like_llll
LooksLikeLlll(text) ==
    LET stripped == Strip(text) IN
    \/ StartsWith(stripped, <<"[">>) /\ EndsWith(stripped, <<"]">>)
    \/ StartsWith(Lower(stripped), <<"roll", " ", "[">>) /\ EndsWith(stripped, <<"]">>)

\* json.loads of a text in braces: it decodes when only members stand between
\* the braces; of two members with one key the later one counts
JsonLoads(text) ==
    LET body == SubSeq(text, 2, Len(text) - 1) IN
    [ok |-> \A i \in 1..Len(body) : body[i] \in Members, body |-> body]

\* dict.get(key) on a decoded object
JsonGet(obj, key) ==
    LET at == {i \in 1..Len(obj.body) : JsonMember[obj.body[i]].key = key} IN
    IF at = {} THEN Absent
    ELSE JsonMember[obj.body[CHOOSE i \in at : \A j \in at : i >= j]]

\* the envelope rule with 'message' ahead of 'type'
ParseMessageFirst(text) ==
    LET heuristic == IF LooksLikeLlll(text) THEN "llll" ELSE "info"
        obj == JsonLoads(text)
        rawType == JsonGet(obj, "type")
        candidate == Lower(Strip(IF rawType.truthy THEN rawType.str ELSE <<>>))
    IN IF StartsWith(text, <<"{">>) /\ EndsWith(text, <<"}">>) /\ obj.ok
       THEN IF JsonGet(obj, "message") # Absent
            THEN [type |-> "info", data |-> JsonGet(obj, "message").str, raw |-> text]
            ELSE IF candidate \in {<<"llll">>, <<"info">>}
            THEN [type |-> candidate[1], data |-> JsonGet(obj, "data").str, raw |-> text]
            ELSE [type |-> heuristic, data |-> text, raw |-> text]
       ELSE [type |-> heuristic, data |-> text, raw |-> text]

\* _parse_incoming
ParseIncoming(text) ==
    LET heuristic == IF LooksLikeLlll(text) THEN "llll" ELSE "info"
        obj == JsonLoads(text)
        rawType == JsonGet(obj, "type")
        candidate == Lower(Strip(IF rawType.truthy THEN rawType.str ELSE <<>>))
    IN IF StartsWith(text, <<"{">>) /\ EndsWith(text, <<"}">>) /\ obj.ok
       THEN IF candidate \in {<<"llll">>, <<"info">>}
            THEN [type |-> candidate[1], data |-> JsonGet(obj, "data").str, raw |-> text]
            ELSE IF JsonGet(obj, "message") # Absent
            THEN [type |-> "info", data |-> JsonGet(obj, "message").str, raw |-> text]
            ELSE [type |-> heuristic, data |-> text, raw |-> text]
       ELSE [type |-> heuristic, data |-> text, raw |-> text]

\* TCPServer._process_message: "handler" when the line goes to the default
\* handler, "raise" when looking its type up in the handler table raises
ProcessMessage(message) ==
    IF /\ StartsWith(message, <<"{">>) /\ EndsWith(message, <<"}">>)
       /\ JsonLoads(message).ok
       /\ ~JsonGet(JsonLoads(message), "type").hashable
    THEN "raise" ELSE "handler"

\* TCPServer.stop
ServerStop(sv) ==
    [sv EXCEPT !.running = FALSE,
               !.socket = IF @ = "none" THEN "none" ELSE "closed"]

\* BachMCPServer.stop on [running, sender, server]
BachStop(st) ==
    [running |-> FALSE, sender |-> TcpClose(st.sender), server |-> ServerStop(st.server)]

\* --------------------------------------------------------------- helpers
Ids(q) == {q[i].id : i \in 1..Len(q)}
\* result of a call: the call, its filter, the message (or None) or count it
\* returned, and what became of its send ("none" when it sent nothing)
Ret(o, f, v, n, s) == [op |-> o, f |-> f, val |-> v, n |-> n, sent |-> s]
NoRet == Ret("none", NoFilter, NoneMsg, 0, "none")
\* a message handed to thread c by a consuming read with filter f, when n
\* messages had been received
Delivery(m, f, c, n) == [id |-> m.id, type |-> m.type, f |-> f, by |-> c, seen |-> n]
\* no wait of the thread has timed out yet
\* nothing has been sent yet
NoSend == [op |-> "none", ok |-> FALSE, tried |-> FALSE, raised |-> FALSE]
NoConn == [st |-> "none", fin |-> FALSE, pc |-> "none", sent |-> <<>>, rd |-> 0,
           todo |-> <<>>, handed |-> <<>>, eof |-> FALSE]
\* TCPSend before connect(): self.socket = None, self.connected = False
NoClient == [socket |-> 0, connected |-> FALSE, made |-> 0,
             st |-> [i \in 1..MaxSockets |-> "none"], lastOk |-> 0]
\* TCPSend after __init__, whose connect() left the sender s
ClientOf(s) ==
    [NoClient EXCEPT !.socket = 1, !.made = 1, !.connected = s.connected,
                     !.st[1] = IF s.connected THEN "connected" ELSE "unconnected",
                     !.lastOk = IF s.connected THEN 1 ELSE 0]
\* no tool has been called
NoTool == [pc |-> "idle", name |-> "none", step |-> 0, tried |-> <<>>,
           results |-> <<>>, out |-> "none"]
NoParsed == [type |-> "none", data |-> <<>>, raw |-> <<>>]
\* the result recorded for a blank line, which is not parsed
Skipped == [type |-> "skipped", data |-> <<>>, raw |-> <<>>]
NoTimeout == [op |-> "none", seq |-> -1, call |-> 0, tmo |-> 0, elapsed |-> 0]
\* lines received plus calls started so far
RECURSIVE Total(_, _)
Total(f, S) ==
    IF S = {} THEN 0
    ELSE LET c == CHOOSE x \in S : TRUE IN f[c] + Total(f, S \ {c})
Events == seq + Total(calls, Callers)
WaitPcs == {"w_pop", "w_check", "w_event", "w_blocked"}
\* blocked in Event.wait, neither notified nor timed out
Blocked(c) == pc[c] = "w_blocked" /\ ~woken[c] /\ now < wakeAt[c]
\* where the latency of a loop iteration is charged: before the clock is read
\* and before Event.wait starts its timeout
LagPcs == {"w_check", "w_event"}
\* time may pass for thread c
MayPass(c) == pc[c] = "idle" \/ Blocked(c) \/ (pc[c] \in LagPcs /\ lag[c] < MaxLag)

\* ------------------------------------------------------------------ Init
\* the state after BachMCPServer.__init__, for a run configured by cf in which
\* the threads ts consume
InitState(cf, ts, ln, sc) ==
    /\ queue = <<>>
    /\ event = FALSE
    /\ seq = 0
    /\ now = 0
    /\ \E connOk \in BOOLEAN :
           sender = TcpConnect([sock |-> "none", connected |-> FALSE], connOk)
    /\ net = [calls |-> 0, attempts |-> 1, found |-> 0, wire |-> <<>>, last |-> NoSend]
    /\ life = [running |-> FALSE, stopping |-> FALSE, stops |-> 0]
    /\ server = [running |-> FALSE, socket |-> "none", pc |-> "unstarted"]
    /\ conn = [c \in Conns |-> NoConn]
    /\ origin = <<>>
    /\ line = ln
    /\ parsed = NoParsed
    /\ score = sc
    /\ tool = NoTool
    /\ client = ClientOf(sender)
    /\ inCall = [c \in Callers |-> [pc |-> "idle", calls |-> 0, ok |-> FALSE]]
    /\ threads = ts
    /\ conf = cf
    /\ pc = [c \in Callers |-> "idle"]
    /\ op = [c \in Callers |-> "none"]
    /\ mtype = [c \in Callers |-> NoFilter]
    /\ tmo = [c \in Callers |-> 0]
    /\ deadline = [c \in Callers |-> 0]
    /\ remaining = [c \in Callers |-> 0]
    /\ wakeAt = [c \in Callers |-> 0]
    /\ woken = [c \in Callers |-> FALSE]
    /\ lag = [c \in Callers |-> 0]
    /\ ret = [c \in Callers |-> NoRet]
    /\ calls = [c \in Callers |-> 0]
    /\ pushed = <<>>
    /\ log = <<>>
    /\ flushed = {}
    /\ evicted = {}
    /\ start = [c \in Callers |-> 0]
    /\ mark = [c \in Callers |-> 0]
    /\ popMark = [c \in Callers |-> 0]
    /\ arrived = [c \in Callers |-> FALSE]
    /\ lastTimeout = [c \in Callers |-> NoTimeout]
    /\ flushMark = 0

\* no score is given to a tool directly
InitOn(cf, ts, ln) == InitState(cf, ts, ln, <<>>)

\* no line is given to the classifier directly
InitFor(cf, ts) == InitOn(cf, ts, <<>>)

\* one consumer thread, as the bridge intends
InitWith(cf) == InitFor(cf, {"A"})

Init == InitWith([calls |-> MaxWaitCalls, events |-> MaxWaitEvents, history |-> FALSE,
                  timing |-> FALSE, marks |-> TRUE])

\* --------------------------------------------------------------- actions
\* a thread that is idle starts a call; mk is the number of messages received
\* so far when the call is a query, 0 otherwise
Call(c, mk) ==
    /\ c \in threads
    /\ pc[c] = "idle"
    /\ calls[c] < conf.calls
    /\ Events < conf.events
    /\ calls' = [calls EXCEPT ![c] = @ + 1]
    /\ mark' = [mark EXCEPT ![c] = IF conf.marks THEN mk ELSE 0]
    /\ popMark' = [popMark EXCEPT ![c] = 0]
    /\ arrived' = [arrived EXCEPT ![c] = FALSE]

\* the clock restarts when the last thread inside a call leaves it
Rebase(c) == IF \A d \in threads \ {c} : pc[d] = "idle" THEN 0 ELSE now

\* a call returns r; its locals die
Return(c, r) ==
    /\ pc' = [pc EXCEPT ![c] = "idle"]
    /\ ret' = [ret EXCEPT ![c] = r]
    /\ op' = [op EXCEPT ![c] = "none"]
    /\ mtype' = [mtype EXCEPT ![c] = NoFilter]
    /\ tmo' = [tmo EXCEPT ![c] = 0]
    /\ deadline' = [deadline EXCEPT ![c] = 0]
    /\ remaining' = [remaining EXCEPT ![c] = 0]
    /\ wakeAt' = [wakeAt EXCEPT ![c] = 0]
    /\ woken' = [woken EXCEPT ![c] = FALSE]
    /\ lag' = [lag EXCEPT ![c] = 0]
    /\ start' = [start EXCEPT ![c] = 0]
    /\ now' = Rebase(c)

\* a call of wait_for_incoming(T, f) begins, on behalf of call o
EnterWait(c, o, T, f) ==
    /\ pc' = [pc EXCEPT ![c] = "w_deadline"]
    /\ op' = [op EXCEPT ![c] = o]
    /\ mtype' = [mtype EXCEPT ![c] = f]
    /\ tmo' = [tmo EXCEPT ![c] = T]
    /\ ret' = [ret EXCEPT ![c] = NoRet]
    /\ UNCHANGED <<deadline, remaining, wakeAt, woken, start, now>>

\* the clock leaves room for a wait of T that starts now
RoomFor(T) == now + MaxLag + Max0(T) + PollSlice <= MaxTime

\* a handler that is unregistered while no thread is inside wait_for_incoming:
\* a line received then is dropped
HandleOnlyWhileWaiting(k) ==
    /\ seq < MaxPush
    /\ Events < conf.events
    /\ LET m == BridgeMessage(seq + 1, k)
           waiting == \E c \in threads : pc[c] \in WaitPcs
       IN
       /\ queue' = IF waiting THEN DequeAppend(queue, m) ELSE queue
       /\ event' = (waiting \/ event)
       /\ evicted' = IF conf.history
                     THEN evicted \cup ((Ids(queue) \cup {m.id}) \ Ids(queue'))
                     ELSE evicted
    /\ pushed' = IF conf.history THEN Append(pushed, k) ELSE pushed
    /\ seq' = seq + 1
    /\ woken' = [c \in Callers |-> woken[c] \/ pc[c] = "w_blocked"]
    /\ arrived' = IF conf.marks
                  THEN [c \in Callers |->
                           \/ arrived[c]
                           \/ /\ pc[c] \in WaitPcs
                              /\ now < deadline[c]
                              /\ (mtype[c] = NoFilter \/ mtype[c] = k)]
                  ELSE arrived
    /\ UNCHANGED <<now, evars, pc, op, mtype, tmo, deadline, remaining,
                   wakeAt, lag, ret, calls, log, flushed, start, mark, popMark,
                   lastTimeout, flushMark>>

\* _handle_incoming_message from the parsed message on: the append and the
\* signal under the lock
Receive(k) ==
    /\ seq < MaxPush
    /\ Events < conf.events
    /\ LET m == BridgeMessage(seq + 1, k) IN
       /\ queue' = DequeAppend(queue, m)
       /\ evicted' = IF conf.history
                     THEN evicted \cup ((Ids(queue) \cup {m.id}) \ Ids(queue'))
                     ELSE evicted
    /\ pushed' = IF conf.history THEN Append(pushed, k) ELSE pushed
    /\ event' = TRUE
    /\ seq' = seq + 1
    /\ woken' = [c \in Callers |-> woken[c] \/ pc[c] = "w_blocked"]
    /\ arrived' = IF conf.marks
                  THEN [c \in Callers |->
                           \/ arrived[c]
                           \/ /\ pc[c] \in WaitPcs
                              /\ now < deadline[c]
                              /\ (mtype[c] = NoFilter \/ mtype[c] = k)]
                  ELSE arrived
    /\ UNCHANGED <<now, sender, threads, conf, net, pc, op, mtype, tmo, deadline,
                   remaining, wakeAt, lag, ret, calls, log, flushed, start, mark,
                   popMark, lastTimeout, flushMark>>

\* _handle_incoming_message for a non-blank line classified as kind k
HandleIncomingMessage(k) == Receive(k) /\ UNCHANGED <<lvars, pvars, tvars>>

\* pop_next_incoming(message_type=f)
PopNextIncoming(c, f) ==
    /\ Call(c, 0)
    /\ LET r == PopNext(queue, event, f) IN
       /\ queue' = r.queue
       /\ event' = r.event
       /\ Return(c, Ret("pop", f, r.val, 0, "none"))
       /\ log' = IF r.val # NoneMsg /\ conf.history
                 THEN Append(log, Delivery(r.val, f, c, seq)) ELSE log
    /\ UNCHANGED <<seq, evars, pushed, flushed, evicted, lastTimeout, flushMark>>

\* get_latest_incoming(message_type=f)
GetLatestIncoming(c, f) ==
    /\ Call(c, 0)
    /\ Return(c, Ret("peek", f, GetLatest(queue, f), 0, "none"))
    /\ UNCHANGED <<qvars, evars, kvars>>

\* incoming_queue_size()
IncomingQueueSize(c) ==
    /\ Call(c, 0)
    /\ Return(c, Ret("size", NoFilter, NoneMsg, Len(queue), "none"))
    /\ UNCHANGED <<qvars, evars, kvars>>

\* flush_incoming()
FlushIncoming(c) ==
    /\ Call(c, 0)
    /\ LET r == FlushAll(queue) IN
       /\ queue' = r.queue
       /\ event' = r.event
       /\ Return(c, Ret("flush", NoFilter, NoneMsg, r.count, "none"))
    /\ flushed' = IF conf.history THEN flushed \cup (Ids(queue) \ Ids(queue'))
                  ELSE flushed
    /\ flushMark' = IF conf.marks THEN seq ELSE flushMark
    /\ UNCHANGED <<seq, evars, pushed, log, evicted, lastTimeout>>

\* send_info(message) / send_score(score): TCPSend.send
\* a send that empties the queue when it fails
SendInfoClearing(c) ==
    /\ Call(c, 0)
    /\ \E connOk, writeOk \in BOOLEAN :
           LET r == TcpSend(sender, connOk, writeOk) IN
           /\ sender' = r.sender
           /\ queue' = IF r.ok THEN queue ELSE <<>>
           /\ event' = IF r.ok THEN event ELSE FALSE
           /\ Return(c, Ret("send", NoFilter, NoneMsg, 0,
                            IF r.ok THEN "ok" ELSE "failed"))
    /\ UNCHANGED <<seq, pushed, log, flushed, evicted, cvars, kvars>>

SendInfo(c) ==
    /\ Call(c, 0)
    /\ \E connOk, writeOk \in BOOLEAN :
           LET r == TcpSend(sender, connOk, writeOk) IN
           /\ sender' = r.sender
           /\ Return(c, Ret("send", NoFilter, NoneMsg, 0,
                            IF r.ok THEN "ok" ELSE "failed"))
    /\ UNCHANGED <<qvars, cvars, kvars>>

\* wait_for_incoming(timeout_seconds=T, message_type=f) called on its own
WaitForIncoming(c, T, f) ==
    /\ Call(c, 0)
    /\ RoomFor(T)
    /\ EnterWait(c, "wait", T, f)
    /\ lag' = [lag EXCEPT ![c] = 0]
    /\ UNCHANGED <<qvars, evars, kvars>>

\* a _request_max_and_wait that empties the queue before it sends
RequestAfterFlush(c, emptyCommand, T) ==
    /\ Call(c, seq)
    /\ RoomFor(T)
    /\ queue' = <<>>
    /\ event' = FALSE
    /\ IF emptyCommand \/ T <= 0
       THEN /\ Return(c, Ret("request", NoFilter, NoneMsg, 0, "none"))
            /\ UNCHANGED sender
       ELSE \E connOk, writeOk \in BOOLEAN :
                LET r == TcpSend(sender, connOk, writeOk) IN
                /\ sender' = r.sender
                /\ IF r.ok
                   THEN /\ EnterWait(c, "request", T, NoFilter)
                        /\ lag' = [lag EXCEPT ![c] = 0]
                   ELSE Return(c, Ret("request", NoFilter, NoneMsg, 0, "failed"))
    /\ UNCHANGED <<seq, cvars, kvars>>

\* _request_max_and_wait(command, timeout_seconds=T) up to its send_info
RequestMaxAndWait(c, emptyCommand, T) ==
    /\ Call(c, seq)
    /\ RoomFor(T)
    /\ IF emptyCommand \/ T <= 0
       THEN /\ Return(c, Ret("request", NoFilter, NoneMsg, 0, "none"))
            /\ UNCHANGED sender
       ELSE \E connOk, writeOk \in BOOLEAN :
                LET r == TcpSend(sender, connOk, writeOk) IN
                /\ sender' = r.sender
                /\ IF r.ok
                   THEN /\ EnterWait(c, "request", T, NoFilter)
                        /\ lag' = [lag EXCEPT ![c] = 0]
                   ELSE Return(c, Ret("request", NoFilter, NoneMsg, 0, "failed"))
    /\ UNCHANGED <<qvars, cvars, kvars>>

\* a query tool that starts without emptying the queue
QueryWithoutFlush(c, T) ==
    /\ Call(c, seq)
    /\ RoomFor(T)
    /\ ret' = [ret EXCEPT ![c] = NoRet]
    /\ pc' = [pc EXCEPT ![c] = "q_send"]
    /\ op' = [op EXCEPT ![c] = "query"]
    /\ tmo' = [tmo EXCEPT ![c] = T]
    /\ lag' = [lag EXCEPT ![c] = 0]
    /\ UNCHANGED <<qvars, now, evars, mtype, deadline, remaining, wakeAt,
                   woken, kvars, start>>

\* ToolExecutor query tool: self._bach.flush_incoming()
QueryFlush(c, T) ==
    /\ Call(c, seq)
    /\ RoomFor(T)
    /\ LET r == FlushAll(queue) IN
       /\ queue' = r.queue
       /\ event' = r.event
    /\ flushed' = IF conf.history THEN flushed \cup (Ids(queue) \ Ids(queue'))
                  ELSE flushed
    /\ flushMark' = IF conf.marks THEN seq ELSE flushMark
    /\ ret' = [ret EXCEPT ![c] = NoRet]
    /\ pc' = [pc EXCEPT ![c] = "q_send"]
    /\ op' = [op EXCEPT ![c] = "query"]
    /\ tmo' = [tmo EXCEPT ![c] = T]
    /\ lag' = [lag EXCEPT ![c] = 0]
    /\ UNCHANGED <<seq, now, evars, mtype, deadline, remaining, wakeAt,
                   woken, pushed, log, evicted, start, lastTimeout>>

\* a query tool that waits for a reply whatever send_info returned
QuerySendThenWait(c) ==
    /\ c \in threads
    /\ pc[c] = "q_send"
    /\ \E connOk, writeOk \in BOOLEAN :
           sender' = TcpSend(sender, connOk, writeOk).sender
    /\ EnterWait(c, "query", tmo[c], NoFilter)
    /\ UNCHANGED <<qvars, cvars, calls, lag, hvars>>

\* ToolExecutor query tool: if self._bach.send_info(cmd): wait, else give up
QuerySend(c) ==
    /\ c \in threads
    /\ pc[c] = "q_send"
    /\ \E connOk, writeOk \in BOOLEAN :
           LET r == TcpSend(sender, connOk, writeOk) IN
           /\ sender' = r.sender
           /\ IF r.ok
              THEN /\ EnterWait(c, "query", tmo[c], NoFilter)
                   /\ UNCHANGED lag
              ELSE Return(c, Ret("query", NoFilter, NoneMsg, 0, "failed"))
    /\ UNCHANGED <<qvars, cvars, calls, hvars>>

\* wait_for_incoming: deadline = time.time() + max(0.0, timeout_seconds)
WaitDeadline(c) ==
    /\ c \in threads
    /\ pc[c] = "w_deadline"
    /\ deadline' = [deadline EXCEPT ![c] = now + Max0(tmo[c])]
    /\ pc' = [pc EXCEPT ![c] = "w_pop"]
    /\ start' = [start EXCEPT ![c] = now]
    /\ arrived' = [arrived EXCEPT ![c] = FALSE]
    /\ UNCHANGED <<qvars, now, evars, op, mtype, tmo, remaining, wakeAt,
                   woken, lag, ret, calls, pushed, log, flushed, evicted, mark,
                   popMark,
                   lastTimeout, flushMark>>

\* wait_for_incoming: message = self.pop_next_incoming(...); return it if any
WaitPop(c) ==
    /\ c \in threads
    /\ pc[c] = "w_pop"
    /\ LET r == PopNext(queue, event, mtype[c]) IN
       /\ queue' = r.queue
       /\ event' = r.event
       /\ IF r.val # NoneMsg
          THEN /\ Return(c, Ret(op[c], mtype[c], r.val, 0, "ok"))
               /\ log' = IF conf.history
                         THEN Append(log, Delivery(r.val, mtype[c], c, seq)) ELSE log
          ELSE /\ pc' = [pc EXCEPT ![c] = "w_check"]
               /\ UNCHANGED <<op, mtype, tmo, deadline, remaining, wakeAt, woken,
                              lag, ret, log, start, now>>
    /\ popMark' = IF conf.marks THEN [popMark EXCEPT ![c] = seq] ELSE popMark
    /\ UNCHANGED <<seq, evars, calls, pushed, flushed, evicted, mark, arrived,
                   lastTimeout, flushMark>>

\* the record of a wait of thread c that times out now
TimeoutOf(c) ==
    [lastTimeout EXCEPT ![c] =
         [op |-> op[c], seq |-> seq, call |-> calls[c],
          tmo |-> IF conf.timing THEN tmo[c] ELSE 0,
          elapsed |-> IF conf.timing THEN now - start[c] ELSE 0]]

\* wait_for_incoming: remaining = deadline - time.time(); give up when <= 0
WaitCheck(c) ==
    /\ c \in threads
    /\ pc[c] = "w_check"
    /\ IF deadline[c] - now <= 0
       THEN /\ Return(c, Ret(op[c], mtype[c], NoneMsg, 0, "ok"))
            /\ lastTimeout' = IF conf.marks THEN TimeoutOf(c) ELSE lastTimeout
       ELSE /\ remaining' = [remaining EXCEPT ![c] = deadline[c] - now]
            /\ pc' = [pc EXCEPT ![c] = "w_event"]
            /\ UNCHANGED <<op, mtype, tmo, deadline, wakeAt, woken, lag, ret, lastTimeout,
                           start, now>>
    /\ UNCHANGED <<qvars, evars, calls, pushed, log, flushed, evicted, mark,
                   popMark, arrived, flushMark>>

\* a timeout of one whole slice, whatever remains
WholeSlice(rem) == PollSlice

\* the timeout handed to Event.wait
WaitSlice(rem) == Min(rem, PollSlice)

\* wait_for_incoming: self._incoming_event.wait(timeout=...) is called; it
\* returns True at once when the event is set and blocks otherwise
WaitEvent(c) ==
    /\ c \in threads
    /\ pc[c] = "w_event"
    /\ lag' = [lag EXCEPT ![c] = 0]
    /\ IF event
       THEN /\ pc' = [pc EXCEPT ![c] = "w_pop"]
            /\ UNCHANGED <<wakeAt, woken>>
       ELSE /\ pc' = [pc EXCEPT ![c] = "w_blocked"]
            /\ wakeAt' = [wakeAt EXCEPT ![c] = now + WaitSlice(remaining[c])]
            /\ woken' = [woken EXCEPT ![c] = FALSE]
    /\ UNCHANGED <<qvars, now, evars, op, mtype, tmo, deadline, remaining,
                   ret, calls, start, hvars>>

\* wait_for_incoming: Event.wait returns has_data (True when notified, False
\* when its timeout expired); "if not has_data and remaining <= 0: return None"
WaitWake(c) ==
    /\ c \in threads
    /\ pc[c] = "w_blocked"
    /\ woken[c] \/ now >= wakeAt[c]
    /\ IF ~woken[c] /\ remaining[c] <= 0
       THEN /\ Return(c, Ret(op[c], mtype[c], NoneMsg, 0, "ok"))
            /\ lastTimeout' = IF conf.marks THEN TimeoutOf(c) ELSE lastTimeout
       ELSE /\ pc' = [pc EXCEPT ![c] = "w_pop"]
            /\ woken' = [woken EXCEPT ![c] = FALSE]
            /\ UNCHANGED <<op, mtype, tmo, deadline, remaining, wakeAt, lag, ret,
                           lastTimeout, start, now>>
    /\ UNCHANGED <<qvars, evars, calls, pushed, log, flushed, evicted, mark,
                   popMark, arrived, flushMark>>

\* the clock advances by one tick while some thread is inside a call
Tick ==
    /\ now < MaxTime
    /\ \E c \in threads : pc[c] # "idle"
    /\ \A c \in threads : MayPass(c)
    /\ now' = now + 1
    /\ lag' = [c \in Callers |-> IF c \in threads /\ pc[c] \in LagPcs
                                 THEN lag[c] + 1 ELSE lag[c]]
    /\ UNCHANGED <<qvars, evars, pc, op, mtype, tmo, deadline, remaining,
                   wakeAt, woken, ret, calls, start, hvars>>

Next ==
    \/ \E k \in Kinds : HandleIncomingMessage(k)
    \/ \E c \in Callers, f \in Filters : PopNextIncoming(c, f)
    \/ \E c \in Callers, f \in Filters : GetLatestIncoming(c, f)
    \/ \E c \in Callers : IncomingQueueSize(c)
    \/ \E c \in Callers : FlushIncoming(c)
    \/ \E c \in Callers : SendInfo(c)
    \/ \E c \in Callers, T \in Timeouts, f \in Filters : WaitForIncoming(c, T, f)
    \/ \E c \in Callers, e \in BOOLEAN, T \in Timeouts : RequestMaxAndWait(c, e, T)
    \/ \E c \in Callers, T \in Timeouts : QueryFlush(c, T)
    \/ \E c \in Callers : QuerySend(c)
    \/ \E c \in Callers : WaitDeadline(c)
    \/ \E c \in Callers : WaitPop(c)
    \/ \E c \in Callers : WaitCheck(c)
    \/ \E c \in Callers : WaitEvent(c)
    \/ \E c \in Callers : WaitWake(c)
    \/ Tick

Spec == Init /\ [][Next]_vars

\* the queue on its own: the listener and a thread that pops, peeks, sizes and
\* flushes, with the history of what became of every message
InitQueue == InitWith([calls |-> MaxCalls, events |-> MaxEvents, history |-> TRUE,
                       timing |-> FALSE, marks |-> FALSE])

NextQueue ==
    \/ \E k \in Kinds : HandleIncomingMessage(k)
    \/ \E c \in Callers, f \in Filters : PopNextIncoming(c, f)
    \/ \E c \in Callers, f \in Filters : GetLatestIncoming(c, f)
    \/ \E c \in Callers : IncomingQueueSize(c)
    \/ \E c \in Callers : FlushIncoming(c)

SpecQueue == InitQueue /\ [][NextQueue]_vars

\* one call under a fair scheduler: a thread that can take a step of its call
\* eventually takes it, and the clock does not stop for ever
InitLive == InitWith([calls |-> 1, events |-> MaxWaitEvents, history |-> FALSE,
                      timing |-> TRUE, marks |-> TRUE])

ThreadStep(c) ==
    QuerySend(c) \/ WaitDeadline(c) \/ WaitPop(c) \/ WaitCheck(c) \/ WaitEvent(c)
        \/ WaitWake(c)

\* send_info(p) / send_score(p) on the outbound connection, with its history
SenderSend(p, connOk, writeOk) ==
    /\ net.calls < MaxSends
    /\ LET r == TcpSend(sender, connOk, writeOk) IN
       /\ sender' = r.sender
       /\ net' = [calls |-> net.calls + 1,
                  attempts |-> net.attempts + (IF r.tried THEN 1 ELSE 0),
                  found |-> net.found + (IF sender.connected THEN 0 ELSE 1),
                  wire |-> IF r.ok THEN Append(net.wire, <<p, "\n">>) ELSE net.wire,
                  last |-> [op |-> "send", ok |-> r.ok, tried |-> r.tried,
                            raised |-> r.raised]]
    /\ UNCHANGED <<qvars, now, threads, conf, lvars, pvars, tvars, pc, op, mtype, tmo, deadline,
                   remaining, wakeAt, woken, lag, ret, calls, start, hvars>>

\* TCPSend.close()
SenderClose ==
    /\ net.calls < MaxSends
    /\ sender' = TcpClose(sender)
    /\ net' = [net EXCEPT !.calls = @ + 1,
                          !.last = [op |-> "close", ok |-> TRUE, tried |-> FALSE,
                                    raised |-> FALSE]]
    /\ UNCHANGED <<qvars, now, threads, conf, lvars, pvars, tvars, pc, op, mtype, tmo, deadline,
                   remaining, wakeAt, woken, lag, ret, calls, start, hvars>>

\* the outbound connection on its own
InitSend ==
    InitWith([calls |-> 0, events |-> 0, history |-> FALSE, timing |-> FALSE,
              marks |-> FALSE])

NextSend ==
    \/ \E p \in Payloads, connOk, writeOk \in BOOLEAN : SenderSend(p, connOk, writeOk)
    \/ SenderClose

SpecSend == InitSend /\ [][NextSend]_vars

\* several consumer threads pop, wait and flush while the listener pushes
InitConcurrent ==
    InitFor([calls |-> MaxWaitCalls, events |-> MaxConcurrentEvents, history |-> TRUE,
             timing |-> FALSE, marks |-> FALSE], Callers)

NextConcurrent ==
    \/ \E k \in Kinds : HandleIncomingMessage(k)
    \/ \E c \in Callers, f \in Filters : PopNextIncoming(c, f)
    \/ \E c \in Callers : FlushIncoming(c)
    \/ \E c \in Callers : WaitForIncoming(c, PollSlice, NoFilter)
    \/ \E c \in Callers : WaitDeadline(c)
    \/ \E c \in Callers : WaitPop(c)
    \/ \E c \in Callers : WaitCheck(c)
    \/ \E c \in Callers : WaitEvent(c)
    \/ \E c \in Callers : WaitWake(c)
    \/ Tick

SpecConcurrent == InitConcurrent /\ [][NextConcurrent]_vars

SpecLive ==
    /\ InitLive
    /\ [][Next]_vars
    /\ \A c \in Callers : WF_vars(ThreadStep(c))
    /\ SF_vars(Tick)

\* the words of a score; a word stands for its characters
ScoreWords == Words \cup {"{", "}"}

Scores == UNION {[1..n -> ScoreWords] : n \in 0..MaxScore}

\* send_score_to_max(score_llll)
SendScoreToMax(connOk, writeOk) ==
    /\ tool.pc = "idle"
    /\ LET stripped == Strip(score)
           err == ValidateLlll(ScoreBody(stripped))
           r == TcpSend(sender, connOk, writeOk)
           called == [NoTool EXCEPT !.pc = "done", !.name = "send_score_to_max"]
       IN IF stripped = <<>>
          THEN /\ tool' = [called EXCEPT !.out = "Rejected empty llll score"]
               /\ UNCHANGED <<sender, net>>
          ELSE IF err # NoError
          THEN /\ tool' = [called EXCEPT !.out = "Rejected llll score"]
               /\ UNCHANGED <<sender, net>>
          ELSE /\ sender' = r.sender
               /\ net' = [calls |-> net.calls + 1,
                          attempts |-> net.attempts + (IF r.tried THEN 1 ELSE 0),
                          found |-> net.found + (IF sender.connected THEN 0 ELSE 1),
                          wire |-> IF r.ok THEN Append(net.wire, <<stripped, "\n">>)
                                   ELSE net.wire,
                          last |-> [op |-> "send", ok |-> r.ok, tried |-> r.tried,
                                    raised |-> r.raised]]
               /\ tool' = [called EXCEPT !.step = 1, !.tried = <<stripped>>,
                                         !.results = <<r.ok>>,
                                         !.out = IF r.ok THEN "Sent llll score to Max"
                                                 ELSE "Failed to send llll score"]
    /\ UNCHANGED <<qvars, now, threads, conf, lvars, pvars, score, xvars, pc, op, mtype, tmo,
                   deadline, remaining, wakeAt, woken, lag, ret, calls, start, hvars>>

\* send_score_to_max called once, with any score of up to MaxScore words
InitScore ==
    \E sc \in Scores :
        InitState([calls |-> 0, events |-> 0, history |-> FALSE, timing |-> FALSE,
                   marks |-> FALSE], {"A"}, <<>>, sc)

NextScore == \E connOk, writeOk \in BOOLEAN : SendScoreToMax(connOk, writeOk)

SpecScore == InitScore /\ [][NextScore]_vars

\* the keys and commands of new_default_score, in the order of its calls of
\* _send_sequential
DefaultScoreSteps ==
    <<[key |-> "clear", command |-> <<"clear">>],
      [key |-> "numvoices", command |-> <<"numvoices", " ", "1">>],
      [key |-> "clefs", command |-> <<"clefs", " ", "G">>],
      [key |-> "stafflines", command |-> <<"stafflines", " ", "5">>],
      [key |-> "numparts", command |-> <<"numparts", " ", "1">>],
      [key |-> "bgcolor", command |-> <<"bgcolor", " ", "1.0", " ", "1.0", " ", "1.0", " ", "1.0">>],
      [key |-> "notecolor", command |-> <<"notecolor", " ", "0.0", " ", "0.0", " ", "0.0", " ", "1.0">>],
      [key |-> "staffcolor", command |-> <<"staffcolor", " ", "0.0", " ", "0.0", " ", "0.0", " ", "1.0">>],
      [key |-> "voicenames", command |-> <<"voicenames">>],
      [key |-> "domain", command |-> <<"domain", " ", "10000.0">>]>>

\* _send_max_message(command) on sender s: the command is stripped; an empty
\* one is rejected before the sender is called
SendMaxMessage(s, command, connOk, writeOk) ==
    LET stripped == Strip(command)
        r == TcpSend(s, connOk, writeOk)
    IN IF stripped = <<>>
       THEN [sender |-> s, ok |-> FALSE, called |-> FALSE, tried |-> FALSE,
             raised |-> FALSE, sent |-> stripped]
       ELSE [sender |-> r.sender, ok |-> r.ok, called |-> TRUE, tried |-> r.tried,
             raised |-> r.raised, sent |-> stripped]

\* new_default_score() is called
NewDefaultScore ==
    /\ tool.pc = "idle"
    /\ tool' = [NoTool EXCEPT !.pc = "running", !.name = "new_default_score"]
    /\ UNCHANGED <<qvars, now, sender, threads, conf, net, lvars, pvars, score, xvars, pc, op,
                   mtype, tmo, deadline, remaining, wakeAt, woken, lag, ret, calls,
                   start, hvars>>

\* a step that ends the sequence when its send fails
SendSequentialUntilFailure(connOk, writeOk) ==
    /\ tool.pc = "running"
    /\ tool.name = "new_default_score"
    /\ tool.step < Len(DefaultScoreSteps)
    /\ LET st == DefaultScoreSteps[tool.step + 1]
           m == SendMaxMessage(sender, st.command, connOk, writeOk)
       IN /\ sender' = m.sender
          /\ net' = [calls |-> net.calls + 1,
                     attempts |-> net.attempts + (IF m.tried THEN 1 ELSE 0),
                     found |-> net.found + (IF sender.connected THEN 0 ELSE 1),
                     wire |-> IF m.ok THEN Append(net.wire, <<m.sent, "\n">>)
                              ELSE net.wire,
                     last |-> [op |-> "send", ok |-> m.ok, tried |-> m.tried,
                               raised |-> m.raised]]
          /\ tool' = [tool EXCEPT !.step = IF m.ok THEN @ + 1 ELSE Len(DefaultScoreSteps),
                                  !.tried = Append(@, m.sent),
                                  !.results = Append(@, [key |-> st.key, ok |-> m.ok])]
    /\ UNCHANGED <<qvars, now, threads, conf, lvars, pvars, score, xvars, pc, op, mtype, tmo,
                   deadline, remaining, wakeAt, woken, lag, ret, calls, start, hvars>>

\* _send_sequential(key, command): results[key] = _send_max_message(command)
SendSequential(connOk, writeOk) ==
    /\ tool.pc = "running"
    /\ tool.name = "new_default_score"
    /\ tool.step < Len(DefaultScoreSteps)
    /\ LET st == DefaultScoreSteps[tool.step + 1]
           m == SendMaxMessage(sender, st.command, connOk, writeOk)
       IN /\ sender' = m.sender
          /\ net' = IF m.called
                    THEN [calls |-> net.calls + 1,
                          attempts |-> net.attempts + (IF m.tried THEN 1 ELSE 0),
                          found |-> net.found + (IF sender.connected THEN 0 ELSE 1),
                          wire |-> IF m.ok THEN Append(net.wire, <<m.sent, "\n">>)
                                   ELSE net.wire,
                          last |-> [op |-> "send", ok |-> m.ok, tried |-> m.tried,
                                    raised |-> m.raised]]
                    ELSE net
          /\ tool' = [tool EXCEPT !.step = @ + 1,
                                  !.tried = IF m.called THEN Append(@, m.sent) ELSE @,
                                  !.results = Append(@, [key |-> st.key, ok |-> m.ok])]
    /\ UNCHANGED <<qvars, now, threads, conf, lvars, pvars, score, xvars, pc, op, mtype, tmo,
                   deadline, remaining, wakeAt, woken, lag, ret, calls, start, hvars>>

\* all_ok = all(v.get("ok", False) ...); return {"ok": all_ok, ...}
DefaultScoreReturn ==
    /\ tool.pc = "running"
    /\ tool.name = "new_default_score"
    /\ tool.step = Len(DefaultScoreSteps)
    /\ tool' = [tool EXCEPT !.pc = "done",
                            !.out = IF \A i \in 1..Len(tool.results) : tool.results[i].ok
                                    THEN "True" ELSE "False"]
    /\ UNCHANGED <<qvars, now, sender, threads, conf, net, lvars, pvars, score, xvars, pc, op,
                   mtype, tmo, deadline, remaining, wakeAt, woken, lag, ret, calls,
                   start, hvars>>

\* new_default_score called once
InitDefault == InitSend

NextDefault ==
    \/ NewDefaultScore
    \/ \E connOk, writeOk \in BOOLEAN : SendSequential(connOk, writeOk)
    \/ DefaultScoreReturn

SpecDefault == InitDefault /\ [][NextDefault]_vars

\* thread c is at position p of a call on the TCPSend
InCall(c, p) == inCall[c].pc = p

\* send(): if not self.connected
SendBegin(c) ==
    /\ InCall(c, "idle")
    /\ inCall[c].calls < MaxClientCalls
    /\ inCall' = [inCall EXCEPT ![c].calls = @ + 1,
                                ![c].pc = IF client.connected THEN "write" ELSE "socket"]
    /\ UNCHANGED client
    /\ UNCHANGED ovars

\* connect(): self.socket = socket.socket(...)
ConnectSocket(c) ==
    /\ InCall(c, "socket")
    /\ client.made < MaxSockets
    /\ client' = [client EXCEPT !.made = @ + 1, !.socket = client.made + 1,
                                !.st[client.made + 1] = "unconnected"]
    /\ inCall' = [inCall EXCEPT ![c].pc = "connect"]
    /\ UNCHANGED ovars

\* connect(): self.socket.connect(...) on the socket self.socket names now;
\* it raises when refused and on a socket that is connected or closed
ConnectConnect(c, connOk) ==
    /\ InCall(c, "connect")
    /\ IF client.st[client.socket] = "unconnected" /\ connOk
       THEN /\ client' = [client EXCEPT !.st[client.socket] = "connected",
                                        !.lastOk = client.socket]
            /\ inCall' = [inCall EXCEPT ![c].pc = "flag"]
       ELSE /\ inCall' = [inCall EXCEPT ![c].pc = "refused"]
            /\ UNCHANGED client
    /\ UNCHANGED ovars

\* connect(): self.connected = True
ConnectFlag(c) ==
    /\ InCall(c, "flag")
    /\ client' = [client EXCEPT !.connected = TRUE]
    /\ inCall' = [inCall EXCEPT ![c].pc = "write"]
    /\ UNCHANGED ovars

\* connect(): except: self.connected = False; send() goes on to the write
ConnectExcept(c) ==
    /\ InCall(c, "refused")
    /\ client' = [client EXCEPT !.connected = FALSE]
    /\ inCall' = [inCall EXCEPT ![c].pc = "write"]
    /\ UNCHANGED ovars

\* send(): self.socket.send(...) on the socket self.socket names now; return
\* True, or the exception of a socket that is not connected or whose write fails
SendWrite(c, writeOk) ==
    /\ InCall(c, "write")
    /\ IF client.st[client.socket] = "connected" /\ writeOk
       THEN /\ inCall' = [inCall EXCEPT ![c].pc = "idle", ![c].ok = TRUE]
            /\ UNCHANGED client
       ELSE /\ inCall' = [inCall EXCEPT ![c].pc = "except"]
            /\ client' = [client EXCEPT !.st[client.socket] =
                              IF @ = "connected" THEN "failed" ELSE @]
    /\ UNCHANGED ovars

\* send(): except: self.connected = False; return False
SendExcept(c) ==
    /\ InCall(c, "except")
    /\ client' = [client EXCEPT !.connected = FALSE]
    /\ inCall' = [inCall EXCEPT ![c].pc = "idle", ![c].ok = FALSE]
    /\ UNCHANGED ovars

\* close(): if self.socket: self.socket.close()
CloseSocket(c) ==
    /\ InCall(c, "idle")
    /\ inCall[c].calls < MaxClientCalls
    /\ client.socket # 0
    /\ client' = [client EXCEPT !.st[client.socket] = "closed"]
    /\ inCall' = [inCall EXCEPT ![c].calls = @ + 1, ![c].pc = "closing"]
    /\ UNCHANGED ovars

\* close(): self.connected = False
CloseFlag(c) ==
    /\ InCall(c, "closing")
    /\ client' = [client EXCEPT !.connected = FALSE]
    /\ inCall' = [inCall EXCEPT ![c].pc = "idle"]
    /\ UNCHANGED ovars

\* two threads call send() and close() on one TCPSend, which has no lock:
\* every statement that reads or writes self.socket or self.connected is a step
InitClient ==
    InitFor([calls |-> 0, events |-> 0, history |-> FALSE, timing |-> FALSE,
             marks |-> FALSE], Callers)

NextClient ==
    \/ \E c \in Callers : SendBegin(c)
    \/ \E c \in Callers : ConnectSocket(c)
    \/ \E c \in Callers, connOk \in BOOLEAN : ConnectConnect(c, connOk)
    \/ \E c \in Callers : ConnectFlag(c)
    \/ \E c \in Callers : ConnectExcept(c)
    \/ \E c \in Callers, writeOk \in BOOLEAN : SendWrite(c, writeOk)
    \/ \E c \in Callers : SendExcept(c)
    \/ \E c \in Callers : CloseSocket(c)
    \/ \E c \in Callers : CloseFlag(c)

SpecClient == InitClient /\ [][NextClient]_vars

\* the outbound connection and the inbound queue side by side: sends and
\* closes while the listener pushes and a thread pops, peeks, flushes and waits
InitSeparate ==
    InitWith([calls |-> 1, events |-> MaxConcurrentEvents, history |-> FALSE,
              timing |-> FALSE, marks |-> FALSE])

NextSeparate ==
    \/ \E k \in Kinds : HandleIncomingMessage(k)
    \/ \E c \in Callers, f \in Filters : PopNextIncoming(c, f)
    \/ \E c \in Callers, f \in Filters : GetLatestIncoming(c, f)
    \/ \E c \in Callers : FlushIncoming(c)
    \/ \E c \in Callers : SendInfo(c)
    \/ \E c \in Callers : WaitForIncoming(c, PollSlice, NoFilter)
    \/ \E c \in Callers : WaitDeadline(c)
    \/ \E c \in Callers : WaitPop(c)
    \/ \E c \in Callers : WaitCheck(c)
    \/ \E c \in Callers : WaitEvent(c)
    \/ \E c \in Callers : WaitWake(c)
    \/ Tick
    \/ \E p \in Payloads, connOk, writeOk \in BOOLEAN : SenderSend(p, connOk, writeOk)
    \/ SenderClose

SpecSeparate == InitSeparate /\ [][NextSeparate]_vars

\* waits that are given no time, and requests with and without time
InitNoWait == InitWith([calls |-> MaxWaitCalls, events |-> MaxWaitEvents,
                        history |-> FALSE, timing |-> TRUE, marks |-> TRUE])

NextNoWait ==
    \/ \E k \in Kinds : HandleIncomingMessage(k)
    \/ \E c \in Callers, T \in NoWaitTimeouts, f \in Filters : WaitForIncoming(c, T, f)
    \/ \E c \in Callers, e \in BOOLEAN, T \in NoWaitTimeouts \cup {MaxTimeout} :
           RequestMaxAndWait(c, e, T)
    \/ \E c \in Callers : WaitDeadline(c)
    \/ \E c \in Callers : WaitPop(c)
    \/ \E c \in Callers : WaitCheck(c)
    \/ \E c \in Callers : WaitEvent(c)
    \/ \E c \in Callers : WaitWake(c)
    \/ Tick

SpecNoWait == InitNoWait /\ [][NextNoWait]_vars

\* one wait for llll messages, called while the queue holds info messages
\* only, under a fair scheduler
InitFiltered == InitLive

NextFiltered ==
    \/ \E k \in Kinds : HandleIncomingMessage(k)
    \/ /\ queue # <<>>
       /\ \A i \in DOMAIN queue : queue[i].type = "info"
       /\ \E c \in Callers, T \in Timeouts : WaitForIncoming(c, T, "llll")
    \/ \E c \in Callers : WaitDeadline(c)
    \/ \E c \in Callers : WaitPop(c)
    \/ \E c \in Callers : WaitCheck(c)
    \/ \E c \in Callers : WaitEvent(c)
    \/ Tick

SpecFiltered ==
    /\ InitFiltered
    /\ [][NextFiltered]_vars
    /\ \A c \in Callers : WF_vars(ThreadStep(c))
    /\ SF_vars(Tick)

\* ------------------------------------------------------------- listener
\* bytes the engine has sent so far
SentBytes == Total([c \in Conns |-> Len(conn[c].sent)], Conns)

\* BachMCPServer.start: TCPServer.start spawns the accept thread and returns
Start ==
    /\ ~life.running
    /\ ~life.stopping
    /\ server.pc = "unstarted"
    /\ life' = [life EXCEPT !.running = TRUE]
    /\ server' = [server EXCEPT !.pc = "socket"]
    /\ UNCHANGED <<qvars, sender, net, nvars, woken, arrived, pushed, evicted,
                   conn, origin, pvars, tvars>>

\* _run_server: self.server_socket = socket.socket(...)
RunSocket ==
    /\ server.pc = "socket"
    /\ server' = [server EXCEPT !.socket = "created", !.pc = "bind"]
    /\ UNCHANGED <<qvars, sender, net, nvars, woken, arrived, pushed, evicted,
                   life, conn, origin, pvars, tvars>>

\* _run_server: setsockopt, bind, listen; a closed socket or a port in use
\* raises, which ends the thread
RunBind(bindOk) ==
    /\ server.pc = "bind"
    /\ server' = IF server.socket = "created" /\ bindOk
                 THEN [server EXCEPT !.socket = "listening", !.pc = "run"]
                 ELSE [server EXCEPT !.pc = "done"]
    /\ UNCHANGED <<qvars, sender, net, nvars, woken, arrived, pushed, evicted,
                   life, conn, origin, pvars, tvars>>

\* _run_server: self.running = True
RunSetRunning ==
    /\ server.pc = "run"
    /\ server' = [server EXCEPT !.running = TRUE, !.pc = "loop"]
    /\ UNCHANGED <<qvars, sender, net, nvars, woken, arrived, pushed, evicted,
                   life, conn, origin, pvars, tvars>>

\* _run_server: while self.running
RunLoop ==
    /\ server.pc = "loop"
    /\ server' = [server EXCEPT !.pc = IF server.running THEN "accept" ELSE "done"]
    /\ UNCHANGED <<qvars, sender, net, nvars, woken, arrived, pushed, evicted,
                   life, conn, origin, pvars, tvars>>

\* _run_server: accept() takes a waiting connection and spawns its reader;
\* on a closed socket it raises and the loop goes round
RunAccept ==
    /\ server.pc = "accept"
    /\ \/ /\ server.socket = "listening"
          /\ \E c \in Conns :
                /\ conn[c].st = "pending"
                /\ conn' = [conn EXCEPT ![c].st = "up", ![c].pc = "loop"]
       \/ /\ server.socket = "closed"
          /\ UNCHANGED conn
    /\ server' = [server EXCEPT !.pc = "loop"]
    /\ UNCHANGED <<qvars, sender, net, nvars, woken, arrived, pushed, evicted,
                   life, origin, pvars, tvars>>

\* stop(), first part: BachMCPServer.running = False, sender.close(), and
\* TCPServer.stop's self.running = False
StopBegin ==
    /\ ~life.stopping
    /\ life.stops < MaxStops
    /\ life' = [life EXCEPT !.running = FALSE, !.stopping = TRUE]
    /\ sender' = TcpClose(sender)
    /\ net' = [net EXCEPT !.last = [op |-> "close", ok |-> TRUE, tried |-> FALSE,
                                    raised |-> FALSE]]
    /\ server' = [server EXCEPT !.running = FALSE]
    /\ UNCHANGED <<qvars, nvars, woken, arrived, pushed, evicted, conn, origin, pvars, tvars>>

\* stop(), second part: TCPServer.stop closes server_socket if there is one
StopSocket ==
    /\ life.stopping
    /\ life' = [life EXCEPT !.stopping = FALSE, !.stops = @ + 1]
    /\ server' = ServerStop(server)
    /\ UNCHANGED <<qvars, sender, net, nvars, woken, arrived, pushed, evicted,
                   conn, origin, pvars, tvars>>

\* the engine connects to the listening socket
EngineConnect(c) ==
    /\ server.socket = "listening"
    /\ conn[c].st = "none"
    /\ conn' = [conn EXCEPT ![c].st = "pending"]
    /\ UNCHANGED <<qvars, sender, net, nvars, woken, arrived, pushed, evicted,
                   life, server, origin, pvars, tvars>>

\* the engine sends one more byte on connection c
EngineSend(c, b) ==
    /\ conn[c].st \in {"pending", "up"}
    /\ ~conn[c].fin
    /\ conn[c].pc # "done"
    /\ SentBytes < MaxBytes
    /\ conn' = [conn EXCEPT ![c].sent = Append(@, b)]
    /\ UNCHANGED <<qvars, sender, net, nvars, woken, arrived, pushed, evicted,
                   life, server, origin, pvars, tvars>>

\* the engine closes its end of connection c
EngineClose(c) ==
    /\ conn[c].st = "up"
    /\ ~conn[c].fin
    /\ conn' = [conn EXCEPT ![c].fin = TRUE]
    /\ UNCHANGED <<qvars, sender, net, nvars, woken, arrived, pushed, evicted,
                   life, server, origin, pvars, tvars>>

\* _handle_client: while self.running; leaving the loop closes the socket
ReaderLoop(c) ==
    /\ conn[c].pc = "loop"
    /\ conn' = [conn EXCEPT ![c].pc = IF server.running THEN "recv" ELSE "done"]
    /\ UNCHANGED <<qvars, sender, net, nvars, woken, arrived, pushed, evicted,
                   life, server, origin, pvars, tvars>>

\* _handle_client: recv(4096) returns some of the bytes that have arrived, up
\* to position n, and the data is cut into messages; once the engine has
\* closed and all is read it returns nothing, or raises, and the reader leaves
ReaderRecv(c, n) ==
    /\ conn[c].pc = "recv"
    /\ \/ /\ conn[c].rd < n
          /\ n <= Len(conn[c].sent)
          /\ LET todo == MessagesOf(SubSeq(conn[c].sent, conn[c].rd + 1, n), conn[c].rd)
             IN conn' = [conn EXCEPT ![c].rd = n,
                                     ![c].todo = todo,
                                     ![c].pc = IF todo = <<>> THEN "loop" ELSE "handle"]
       \/ /\ n = Len(conn[c].sent)
          /\ conn[c].rd = n
          /\ conn[c].fin
          /\ conn' = [conn EXCEPT ![c].pc = "done", ![c].eof = TRUE]
    /\ UNCHANGED <<qvars, sender, net, nvars, woken, arrived, pushed, evicted,
                   life, server, origin, pvars, tvars>>

\* _handle_incoming_message(raw) for the text that began at position at of
\* connection c: blank text is dropped, anything else parsed and appended
HandleRaw(raw, c, at) ==
    LET text == Strip(raw) IN
    IF text = <<>>
    THEN UNCHANGED <<qvars, sender, net, nvars, woken, arrived, pushed, evicted, origin>>
    ELSE /\ Receive(ParseIncoming(text).type)
         /\ origin' = Append(origin, [conn |-> c, at |-> at + Lead(raw)])

\* _handle_client: the next message of the data read goes through
\* _process_message to the handler; an exception there ends the reader
ReaderHandle(c) ==
    /\ conn[c].pc = "handle"
    /\ LET m == Head(conn[c].todo)
           rest == Tail(conn[c].todo)
       IN IF ProcessMessage(m.text) = "raise"
          THEN /\ conn' = [conn EXCEPT ![c].pc = "done", ![c].todo = <<>>]
               /\ UNCHANGED <<qvars, sender, net, nvars, woken, arrived, pushed,
                              evicted, origin>>
          ELSE /\ HandleRaw(m.text, c, m.at)
               /\ conn' = [conn EXCEPT ![c].todo = rest,
                                       ![c].handed = Append(@, m),
                                       ![c].pc = IF rest = <<>> THEN "loop" ELSE "handle"]
    /\ UNCHANGED <<life, server, pvars, tvars>>

\* the listener with the outbound connection up; stop() is called once
InitListen ==
    /\ InitWith([calls |-> 0, events |-> MaxPush, history |-> FALSE, timing |-> FALSE,
                 marks |-> FALSE])
    /\ sender.connected

NextListen ==
    \/ Start
    \/ RunSocket
    \/ \E bindOk \in BOOLEAN : RunBind(bindOk)
    \/ RunSetRunning
    \/ RunLoop
    \/ RunAccept
    \/ life.stops = 0 /\ StopBegin
    \/ StopSocket
    \/ \E c \in Conns : EngineConnect(c)
    \/ \E c \in Conns, b \in Bytes : EngineSend(c, b)
    \/ \E c \in Conns : EngineClose(c)
    \/ \E c \in Conns : ReaderLoop(c)
    \/ \E c \in Conns, n \in 0..MaxBytes : ReaderRecv(c, n)
    \/ \E c \in Conns : ReaderHandle(c)

SpecListen == InitListen /\ [][NextListen]_vars

\* ------------------------------------------------------------ classifier
\* the strings over S of at most n words
RECURSIVE SeqsUpTo(_, _)
SeqsUpTo(S, n) ==
    IF n = 0 THEN {<<>>}
    ELSE LET shorter == SeqsUpTo(S, n - 1)
         IN shorter \cup {Append(t, x) : t \in shorter, x \in S}

PlainLines == SeqsUpTo(Words, MaxLine)

\* braces around members and stray words, bare or with whitespace around
EnvelopeLines ==
    LET bare == {<<"{">> \o body \o <<"}">> :
                    body \in SeqsUpTo(Members \cup {"x"}, MaxMembers)}
    IN bare \cup {<<" ">> \o t \o <<"\n">> : t \in bare}

Lines == PlainLines \cup EnvelopeLines

\* the lines the engine sends whole
DispatchLines ==
    SeqsUpTo(Words, MaxDispatch)
        \cup {<<"[", "x", "]">>}
        \cup {<<"{">> \o body \o <<"}">> : body \in SeqsUpTo(Members \cup {"x"}, MaxDispatch)}

\* the engine writes the line and its newline on connection c in one piece
EngineSendLine(c) ==
    /\ conn[c].st = "up"
    /\ ~conn[c].fin
    /\ Len(conn[c].sent) < MaxRepeat * (Len(line) + 1)
    /\ conn' = [conn EXCEPT ![c].sent = @ \o line \o <<"\n">>]
    /\ UNCHANGED <<qvars, sender, net, nvars, woken, arrived, pushed, evicted,
                   life, server, origin, pvars, tvars>>

\* the reader of one connection on which whole lines arrive, each read
\* returning all that has arrived
InitDispatch ==
    /\ \E ln \in DispatchLines :
           InitOn([calls |-> 0, events |-> MaxPush, history |-> FALSE, timing |-> FALSE,
                   marks |-> FALSE], {"A"}, ln)
    /\ sender.connected

NextDispatch ==
    \/ Start
    \/ RunSocket
    \/ RunBind(TRUE)
    \/ RunSetRunning
    \/ RunLoop
    \/ RunAccept
    \/ EngineConnect(1)
    \/ EngineSendLine(1)
    \/ EngineClose(1)
    \/ ReaderLoop(1)
    \/ ReaderRecv(1, Len(conn[1].sent))
    \/ ReaderHandle(1)

SpecDispatch == InitDispatch /\ [][NextDispatch]_vars

\* _handle_incoming_message called with the raw line
HandleLine ==
    /\ parsed = NoParsed
    /\ HandleRaw(line, 0, 0)
    /\ parsed' = IF Strip(line) = <<>> THEN Skipped ELSE ParseIncoming(Strip(line))
    /\ UNCHANGED <<life, server, conn, line, tvars>>

InitParse ==
    /\ \E ln \in Lines :
           InitOn([calls |-> 0, events |-> 1, history |-> FALSE, timing |-> FALSE,
                   marks |-> FALSE], {"A"}, ln)
    /\ sender.connected

NextParse == HandleLine

SpecParse == InitParse /\ [][NextParse]_vars

\* the outbound connection and the listener's accept thread under start(),
\* stop(), send and close, with no engine connected
InitLifecycle == InitSend

NextLifecycle ==
    \/ \E p \in Payloads, connOk, writeOk \in BOOLEAN : SenderSend(p, connOk, writeOk)
    \/ SenderClose
    \/ Start
    \/ RunSocket
    \/ \E bindOk \in BOOLEAN : RunBind(bindOk)
    \/ RunSetRunning
    \/ RunLoop
    \/ RunAccept
    \/ StopBegin
    \/ StopSocket

SpecLifecycle == InitLifecycle /\ [][NextLifecycle]_vars

\* ================================================================ claims
\* the n-th message received, as it was appended
Pushed(n) == BridgeMessage(n, pushed[n])
\* no message has been discarded or taken out of arrival order so far
OnlyUnfilteredPops ==
    /\ flushed = {}
    /\ evicted = {}
    /\ \A i \in 1..Len(log) : log[i].f = NoFilter
\* the queue without its i-th message, the others in their order
Without(q, i) == [j \in 1..(Len(q) - 1) |-> IF j < i THEN q[j] ELSE q[j + 1]]
\* the positions of the messages of kind k
Matching(q, k) == {i \in 1..Len(q) : q[i].type = k}
Oldest(S) == CHOOSE i \in S : \A j \in S : i <= j

\* C1: the inbound queue is first-in first-out under unfiltered pops.  As long
\* as nothing was evicted, flushed or popped with a filter, the i-th message an
\* unfiltered pop returns is the i-th message pushed; an unfiltered pop of a
\* non-empty queue returns and removes its oldest message, and an unfiltered pop
\* of an empty queue returns None and changes nothing.
C1_FifoOrder ==
    /\ [](OnlyUnfilteredPops => \A i \in 1..Len(log) : log[i].id = i)
    /\ [][\A c \in Callers :
            PopNextIncoming(c, NoFilter) =>
                IF queue = <<>>
                THEN ret'[c].val = NoneMsg /\ queue' = queue
                ELSE ret'[c].val = Head(queue) /\ queue' = Tail(queue)]_vars

\* two messages were pushed, then two unfiltered pops returned them in push
\* order and a third returned None
C1_Witness ==
    /\ OnlyUnfilteredPops
    /\ seq = 2
    /\ Len(log) = 2
    /\ log[1].seen = 2
    /\ log[1].id = 1 /\ log[2].id = 2
    /\ calls["A"] = 3
    /\ ret["A"] = Ret("pop", NoFilter, NoneMsg, 0, "none")

\* C2: a pop with a type filter removes and returns the oldest message of that
\* type and leaves every other message in the queue in its order (None and an
\* untouched queue when no message has the type).  When A, B, C are pushed with
\* types X, Y, X and nothing else touches the queue, pops with filter X, filter
\* X and no filter return A, C and B.
C2_FilteredPop ==
    /\ [][\A c \in Callers, k \in Kinds :
            PopNextIncoming(c, k) =>
                IF Matching(queue, k) = {}
                THEN ret'[c].val = NoneMsg /\ queue' = queue
                ELSE LET i == Oldest(Matching(queue, k)) IN
                     /\ ret'[c].val = queue[i]
                     /\ queue' = Without(queue, i)]_vars
    /\ [](\A x, y \in Kinds :
            (/\ x # y
             /\ Len(log) >= 3
             /\ log[1].seen = 3 /\ log[3].seen = 3
             /\ flushed = {} /\ evicted = {}
             /\ pushed[1] = x /\ pushed[2] = y /\ pushed[3] = x
             /\ log[1].f = x /\ log[2].f = x /\ log[3].f = NoFilter)
            => (log[1].id = 1 /\ log[2].id = 3 /\ log[3].id = 2))

\* A, B, C of types X, Y, X were pushed; pops with filter X, X and no filter
\* returned A, C, B
C2_Witness ==
    /\ seq = 3
    /\ pushed = <<"llll", "info", "llll">>
    /\ flushed = {} /\ evicted = {}
    /\ Len(log) = 3
    /\ log[1] = Delivery(Pushed(1), "llll", "A", 3)
    /\ log[2] = Delivery(Pushed(3), "llll", "A", 3)
    /\ log[3] = Delivery(Pushed(2), NoFilter, "A", 3)

\* C3: the queue never holds more than Capacity messages; a push onto a full
\* queue succeeds and drops the oldest message, so that while nothing is popped
\* or flushed the queue holds exactly the last min(n, Capacity) of the n
\* messages pushed, in push order; after Capacity + 1 pushes the first
\* unfiltered pop returns the second message pushed.
C3_BoundedEviction ==
    /\ Len(queue) <= Capacity
    /\ (log = <<>> /\ flushed = {}) =>
           LET n == Min(seq, Capacity) IN
           /\ queue = [i \in 1..n |-> Pushed(seq - n + i)]
           /\ evicted = 1..(seq - n)
    /\ (/\ Len(log) >= 1
        /\ log[1].seen = Capacity + 1
        /\ log[1].f = NoFilter
        /\ flushed = {}) => log[1].id = 2

\* Capacity + 1 messages were pushed, the first was dropped, and the first
\* unfiltered pop returned the second
C3_Witness ==
    /\ Len(log) = 1
    /\ log[1].seen = Capacity + 1
    /\ log[1].f = NoFilter
    /\ log[1].id = 2
    /\ evicted = {1}
    /\ flushed = {}
    /\ Len(queue) = Capacity - 1

\* a send-and-wait or a plain wait of thread c has returned None after its
\* deadline, and the thread has started nothing since
TimedOut(c) ==
    /\ pc[c] = "idle"
    /\ ret[c].op \in {"wait", "request", "query"}
    /\ ret[c].sent = "ok"
    /\ ret[c].val = NoneMsg
\* thread c has got a message from a query tool
QueryGot(c) == ret[c].op = "query" /\ ret[c].val # NoneMsg
InWait(c) == pc[c] \in WaitPcs \cup {"w_deadline"}

\* C4: flush_incoming returns the number of messages that were queued and
\* leaves the queue empty and the event cleared; until the next push the queue
\* stays empty, so the size is 0 and every pop and peek, with any filter,
\* returns None; and no message pushed before a flush is returned by any later
\* pop, peek or wait.
C4_FlushComplete ==
    /\ [](\A i \in 1..Len(queue) : queue[i].id > flushMark)
    /\ [](seq = flushMark => queue = <<>> /\ ~event)
    /\ [][\A c \in Callers :
            /\ FlushIncoming(c) =>
                   ret'[c].n = Len(queue) /\ queue' = <<>> /\ ~event'
            /\ (\E T \in Timeouts : QueryFlush(c, T)) => queue' = <<>> /\ ~event'
            /\ (seq = flushMark /\ IncomingQueueSize(c)) => ret'[c].n = 0
            /\ \A f \in Filters :
                   (seq = flushMark /\ (PopNextIncoming(c, f) \/ GetLatestIncoming(c, f)))
                       => ret'[c].val = NoneMsg
            /\ \A f \in Filters :
                   ((PopNextIncoming(c, f) \/ GetLatestIncoming(c, f) \/ WaitPop(c))
                        /\ ret'[c].val # NoneMsg)
                       => ret'[c].val.id > flushMark]_vars

\* the first call flushed two messages, a third arrived, and the second call, a
\* wait, returned the third
C4_Witness ==
    /\ flushMark = 2
    /\ calls["A"] = 2
    /\ ret["A"].op = "wait"
    /\ ret["A"].val.id = 3

\* C5 as stated: for every interleaving of the pushes, the message a query tool
\* (flush, successful send, wait) returns is the first message pushed after its
\* flush.
C5_FirstAfterFlush ==
    \A c \in Callers : QueryGot(c) => ret[c].val.id = mark[c] + 1

\* C5, amended: the message a query tool returns was pushed after its flush,
\* and it is the first message pushed after the flush whenever at most Capacity
\* messages were pushed between the flush and the pop that took it (otherwise
\* the deque has dropped the first ones).
C5_FlushThenQuery ==
    \A c \in Callers :
        QueryGot(c) =>
            /\ ret[c].val.id > mark[c]
            /\ (popMark[c] - mark[c] <= Capacity) => ret[c].val.id = mark[c] + 1

\* a query, the first call of its thread, flushed two stale messages and
\* returned the third message pushed
C5_Witness ==
    /\ QueryGot("A")
    /\ calls["A"] = 1
    /\ mark["A"] = 2
    /\ ret["A"].val.id = 3

\* C6: when the send of a send-and-wait returns False (the sender is left not
\* connected), that very step returns the null result: the thread does not
\* enter wait_for_incoming, no time passes, and the queue and the event are as
\* they were.
C6_SendFailure ==
    [][\A c \in Callers :
         (((\E e \in BOOLEAN, T \in Timeouts : RequestMaxAndWait(c, e, T)) \/ QuerySend(c))
              /\ ~sender'.connected)
         => /\ pc'[c] = "idle"
            /\ ret'[c].op \in {"request", "query"}
            /\ ret'[c].val = NoneMsg
            /\ ret'[c].sent # "ok"
            /\ now' <= now
            /\ UNCHANGED <<queue, event>>]_vars

\* a send-and-wait whose send failed has returned and a message is still queued
C6_Witness ==
    /\ ret["A"].op \in {"request", "query"}
    /\ ret["A"].sent = "failed"
    /\ pc["A"] = "idle"
    /\ queue # <<>>

\* C7 as stated: a wait during which a matching message was pushed strictly
\* before the deadline does not return None.
C7_ReturnsIfPushedBeforeDeadline ==
    \A c \in Callers : TimedOut(c) => ~arrived[c]

\* C7, amended: a pop attempt of wait_for_incoming that finds a matching
\* message in the queue returns the oldest one; the call returns None only when
\* its last pop attempt found none, so that every matching message still queued
\* at that moment was pushed after that last pop attempt.
C7_ReturnsIfQueuedAtPop ==
    /\ [](\A c \in Callers :
            TimedOut(c) =>
                \A i \in 1..Len(queue) :
                    (ret[c].f = NoFilter \/ queue[i].type = ret[c].f)
                        => queue[i].id > popMark[c])
    /\ [][\A c \in Callers :
            WaitPop(c) =>
                LET S == IF mtype[c] = NoFilter THEN 1..Len(queue)
                         ELSE Matching(queue, mtype[c])
                IN  IF S = {} THEN pc'[c] = "w_check" /\ queue' = queue
                    ELSE /\ pc'[c] = "idle"
                         /\ ret'[c].val = queue[Oldest(S)]
                         /\ ret'[c].sent = "ok"]_vars

\* a filtered wait returned a matching message that was pushed, behind a
\* message of the other kind, while it waited
C7_Witness ==
    /\ arrived["A"]
    /\ ret["A"].op \in {"wait", "request", "query"}
    /\ ret["A"].f = "llll"
    /\ ret["A"].val # NoneMsg
    /\ ret["A"].val.type = "llll"
    /\ queue # <<>>
    /\ queue[1].id < ret["A"].val.id

\* C8: wait_for_incoming always returns; when it returns None it does so no
\* earlier than max(0, T) after it started and no later than a poll slice after
\* that; and each Event.wait blocks for at most min(remaining, PollSlice).
C8_Timeout ==
    /\ \A c \in Callers : [](InWait(c) => <>(pc[c] = "idle"))
    /\ [][\A c \in Callers :
            /\ (InWait(c) /\ pc'[c] = "idle" /\ ret'[c].val = NoneMsg)
                   => /\ now >= start[c] + Max0(tmo[c])
                      /\ now <= start[c] + Max0(tmo[c]) + PollSlice
            /\ (WaitEvent(c) /\ pc'[c] = "w_blocked")
                   => wakeAt'[c] - now <= Min(remaining[c], PollSlice)]_vars

\* a wait with a positive timeout, during which nothing was pushed, has
\* returned None later than its deadline
C8_Witness ==
    /\ TimedOut("A")
    /\ seq = 0
    /\ lastTimeout["A"].call = 1
    /\ lastTimeout["A"].tmo = MaxTimeout
    /\ lastTimeout["A"].elapsed > MaxTimeout

C10_StaleReply ==
    [][\A c \in Callers :
         /\ (\E e \in BOOLEAN, T \in Timeouts : RequestMaxAndWait(c, e, T))
                => UNCHANGED <<queue, event>>
         /\ (WaitPop(c) /\ op[c] = "request" /\ queue # <<>>)
                => /\ pc'[c] = "idle"
                   /\ ret'[c].op = "request"
                   /\ ret'[c].val = Head(queue)]_vars

\* a request timed out, a message was pushed after the timeout and before the
\* next request sent its command, and the next request returned that message
C10_Witness ==
    /\ lastTimeout["A"].op = "request"
    /\ calls["A"] = lastTimeout["A"].call + 1
    /\ ret["A"].op = "request"
    /\ ret["A"].val # NoneMsg
    /\ ret["A"].val.id > lastTimeout["A"].seq
    /\ ret["A"].val.id <= mark["A"]

\* the ids of the messages consuming reads have returned
Popped == {log[i].id : i \in 1..Len(log)}

\* C11: with several consumer threads popping, waiting and flushing while the
\* listener pushes, no message is returned twice, every message pushed is in
\* exactly one of four places (returned, flushed, evicted, queued), and the
\* numbers add up: pushed = popped + flushed + evicted + queued.
C11_Conservation ==
    /\ \A i, j \in 1..Len(log) : i # j => log[i].id # log[j].id
    /\ \A i, j \in 1..Len(queue) : i # j => queue[i].id # queue[j].id
    /\ \A i \in 1..Len(log) : log[i].id \in 1..seq /\ log[i].type = pushed[log[i].id]
    /\ Popped \cup flushed \cup evicted \cup Ids(queue) = 1..seq
    /\ Popped \cap flushed = {} /\ Popped \cap evicted = {} /\ Popped \cap Ids(queue) = {}
    /\ flushed \cap evicted = {} /\ flushed \cap Ids(queue) = {}
    /\ evicted \cap Ids(queue) = {}
    /\ seq = Len(log) + Cardinality(flushed) + Cardinality(evicted) + Len(queue)

\* two threads were inside wait_for_incoming together, two messages were
\* pushed, and each thread got one of them
C11_Witness ==
    /\ seq = 2
    /\ Len(log) = 2
    /\ log[1].by # log[2].by
    /\ log[1].seen = 2
    /\ ret["A"].op = "wait" /\ ret["A"].val # NoneMsg
    /\ ret["B"].op = "wait" /\ ret["B"].val # NoneMsg
    /\ ret["A"].val # ret["B"].val

\* C12: a send that finds the connection not connected makes exactly one
\* connect attempt; when that attempt fails the call returns False, raises
\* nothing, writes nothing and leaves connected = False.  No send raises.
C12_UnreachableIsValue ==
    [][\A p \in Payloads, connOk, writeOk \in BOOLEAN :
         SenderSend(p, connOk, writeOk) =>
             /\ ~net'.last.raised
             /\ sender.connected => net'.attempts = net.attempts
             /\ ~sender.connected =>
                    /\ net'.attempts = net.attempts + 1
                    /\ ~connOk => /\ ~net'.last.ok
                                  /\ net'.wire = net.wire
                                  /\ ~sender'.connected]_vars

\* a send found the connection down, tried once to connect, failed and
\* returned False with nothing written
C12_Witness ==
    /\ net.last = [op |-> "send", ok |-> FALSE, tried |-> TRUE, raised |-> FALSE]
    /\ sender = [sock |-> "unconnected", connected |-> FALSE]
    /\ net.wire = <<>>
    /\ net.calls = 1
    /\ net.attempts = 2

\* C13: a send whose write fails returns False and leaves connected = False;
\* a send that finds connected = False connects anew before it writes and
\* returns True exactly when both the connect and the write succeed.  A send
\* puts on the wire its own payload or nothing: a payload that failed is never
\* written later, and no call makes more than one connect attempt.
C13_Reconnect ==
    /\ [][\A p \in Payloads, connOk, writeOk \in BOOLEAN :
            SenderSend(p, connOk, writeOk) =>
                /\ ((sender.connected \/ connOk) /\ ~writeOk)
                       => ~net'.last.ok /\ ~sender'.connected
                /\ ~sender.connected
                       => net'.last.tried /\ (net'.last.ok <=> (connOk /\ writeOk))
                /\ net'.wire = IF net'.last.ok THEN Append(net.wire, <<p, "\n">>)
                               ELSE net.wire
                /\ net'.attempts <= net.attempts + 1]_vars
    /\ [][SenderClose => net'.wire = net.wire /\ net'.attempts = net.attempts]_vars

\* the connection was up, a send failed in its write, and the next send
\* connected anew and wrote its payload
C13_Witness ==
    /\ net.calls = 2
    /\ net.found = 1
    /\ net.attempts = 2
    /\ net.last = [op |-> "send", ok |-> TRUE, tried |-> TRUE, raised |-> FALSE]
    /\ Len(net.wire) = 1
    /\ sender.connected

\* C15 as stated: no connect attempt is made at construction; every connect
\* attempt is part of a send that found the connection not connected.
C15_LazyConnect == net.attempts = net.found

\* C15, amended: the constructor makes one connect attempt; after it, a connect
\* attempt is made exactly by each send that finds the connection not connected.
C15_ConnectAtConstruction == net.attempts = 1 + net.found

\* three sends on a connection that was up: the second found it down after the
\* first had failed, so two connect attempts were made in all
C15_Witness ==
    /\ net.calls = 3
    /\ net.found = 1
    /\ net.attempts = 2
    /\ Len(net.wire) = 2
    /\ net.last = [op |-> "send", ok |-> TRUE, tried |-> FALSE, raised |-> FALSE]

\* what stop() works on
StopState == [running |-> life.running, sender |-> sender, server |-> server]

\* C14: close() never raises and leaves the socket released and connected =
\* False; a close() that follows a close() changes nothing, and closing twice
\* gives the state closing once gives.  stop() sets running to False, closes
\* the outbound connection and stops the listener; a stop() called on the state
\* a stop() left changes nothing, and stopping twice gives the state stopping
\* once gives.
C14_CloseIdempotent ==
    /\ [](/\ TcpClose(TcpClose(sender)) = TcpClose(sender)
          /\ BachStop(BachStop(StopState)) = BachStop(StopState))
    /\ [][SenderClose =>
             /\ ~net'.last.raised
             /\ sender' = [sock |-> "closed", connected |-> FALSE]
             /\ net.last.op = "close" => sender' = sender]_vars
    /\ [][StopBegin =>
             /\ life'.running = BachStop(StopState).running
             /\ sender' = BachStop(StopState).sender
             /\ server'.running = BachStop(StopState).server.running
             /\ sender' = [sock |-> "closed", connected |-> FALSE]
             /\ (StopState = BachStop(StopState)) =>
                    (sender' = sender /\ server' = server
                        /\ life'.running = life.running)]_vars
    /\ [][StopSocket =>
             /\ server'.socket = BachStop(StopState).server.socket
             /\ (StopState = BachStop(StopState)) => server' = server]_vars

\* stop() has returned twice on a server that had started listening, after a
\* close() on a connection that was not up
C14_Witness ==
    /\ life.stops = 2
    /\ ~life.stopping
    /\ StopState = BachStop(StopState)
    /\ server.socket = "closed"
    /\ net.calls = 2
    /\ net.found = 1
    /\ net.last.op = "close"

\* the texts of a sequence of messages
Texts(ms) == [i \in 1..Len(ms) |-> ms[i].text]
\* the non-empty lines of a whole stream
LinesOf(stream) == NonBlank(SplitLines(stream, 0))
\* where the messages appended for connection c began, in append order
AtsOf(c) ==
    LET mine == SelectSeq(origin, LAMBDA o : o.conn = c)
    IN [i \in 1..Len(mine) |-> mine[i].at]
\* stop() has returned after the last start()
Stopped == ~life.running /\ ~life.stopping /\ life.stops > 0 /\ server.pc # "unstarted"

\* C16: when the reader of a connection has read its stream to the end, the
\* messages it handed to the handler are the non-empty lines of the stream,
\* however the bytes were split across reads.
C16_NewlineFraming ==
    \A c \in Conns :
        conn[c].eof => Texts(conn[c].handed) = Texts(LinesOf(conn[c].sent))

\* C17: the messages of one connection are appended in the order in which
\* their texts lie in its stream, one append per message handed over, and they
\* keep that order in the queue whatever the other connections append between
\* them; appends are numbered one by one.
C17_ConnectionOrder ==
    /\ Len(origin) = seq
    /\ \A i \in 1..Len(queue) : queue[i].id \in 1..seq
    /\ \A i, j \in 1..Len(queue) : i < j => queue[i].id < queue[j].id
    /\ \A c \in Conns :
          /\ AtsOf(c) = [i \in 1..Len(conn[c].handed) |-> conn[c].handed[i].at]
          /\ \A i, j \in 1..Len(AtsOf(c)) : i < j => AtsOf(c)[i] < AtsOf(c)[j]
    /\ \A i, j \in 1..Len(queue) :
          (i < j /\ origin[queue[i].id].conn = origin[queue[j].id].conn)
              => origin[queue[i].id].at < origin[queue[j].id].at

\* a message of connection 2 is queued between two messages of connection 1
C17_Witness ==
    /\ Len(queue) = 3
    /\ origin[queue[1].id].conn = 1
    /\ origin[queue[2].id].conn = 2
    /\ origin[queue[3].id].conn = 1
    /\ origin[queue[1].id].at < origin[queue[3].id].at
    /\ Len(conn[1].handed) = 2
    /\ Len(conn[2].handed) = 1

\* C18: once stop() has returned after start(), the listener has no listening
\* socket, so the accept thread accepts no further connection, whatever the
\* accept thread had done when stop() ran.
C18_ListenerStop == Stopped => server.socket # "listening"

\* the line as the handler trims it
Trimmed == Strip(line)
\* the line was parsed
Parsed == parsed \notin {NoParsed, Skipped}
\* the trimmed line has the shape {...} and decodes to an object
IsEnvelope ==
    /\ Len(Trimmed) >= 2
    /\ Trimmed[1] = "{"
    /\ Trimmed[Len(Trimmed)] = "}"
    /\ \A i \in 2..(Len(Trimmed) - 1) : Trimmed[i] \in Members
\* the trimmed line is in brackets, or in brackets after the word roll
Bracketed ==
    /\ Trimmed # <<>>
    /\ Trimmed[Len(Trimmed)] = "]"
    /\ \/ Trimmed[1] = "["
       \/ /\ Len(Trimmed) >= 3
          /\ Trimmed[1] \in {"roll", "ROLL"}
          /\ Trimmed[2] = " "
          /\ Trimmed[3] = "["
\* the field of the envelope with this key, the last one if it is repeated
FieldOf(key) ==
    LET at == {i \in 2..(Len(Trimmed) - 1) : JsonMember[Trimmed[i]].key = key}
    IN IF at = {} THEN Absent ELSE JsonMember[Trimmed[CHOOSE i \in at : \A j \in at : i >= j]]
\* the 'type' field of the envelope, trimmed and lower-cased, names a kind
NamesKind == Lower(Strip(FieldOf("type").str)) \in {<<"llll">>, <<"info">>}

\* C19: a line that is no JSON object envelope is classified llll exactly
\* when, trimmed, it starts with [ and ends with ], or starts with roll [ in
\* any case and ends with ]; otherwise info.  Its data and raw are the trimmed
\* line, and one message of that kind is queued.
C19_Heuristic ==
    (Parsed /\ ~IsEnvelope) =>
        /\ parsed.type = (IF Bracketed THEN "llll" ELSE "info")
        /\ parsed.data = Trimmed
        /\ parsed.raw = Trimmed
        /\ queue = <<BridgeMessage(1, parsed.type)>>

\* the line ROLL [ ] was classified llll with itself as payload
C19_Witness ==
    /\ line = <<"ROLL", " ", "[", "]">>
    /\ parsed = [type |-> "llll", data |-> line, raw |-> line]

\* C20: for a line {...} that decodes to an object: (a) a 'type' field that,
\* trimmed and lower-cased, is llll or info gives that kind and the payload
\* str(data), empty when there is no 'data', whatever 'message' says; (b)
\* otherwise a 'message' field gives kind info and itself as payload; (c)
\* otherwise, and for a line {...} that does not decode, the bracket heuristic
\* gives the kind and the payload is the trimmed line.  raw is always the
\* trimmed line.
C20_EnvelopeOverride ==
    Parsed =>
        /\ parsed.raw = Trimmed
        /\ (IsEnvelope /\ NamesKind) =>
               /\ <<parsed.type>> = Lower(Strip(FieldOf("type").str))
               /\ parsed.data = FieldOf("data").str
        /\ (IsEnvelope /\ ~NamesKind /\ FieldOf("message") # Absent) =>
               /\ parsed.type = "info"
               /\ parsed.data = FieldOf("message").str
        /\ (~IsEnvelope \/ (~NamesKind /\ FieldOf("message") = Absent)) =>
               /\ parsed.type = (IF Bracketed THEN "llll" ELSE "info")
               /\ parsed.data = Trimmed

\* an envelope with type " LLLL ", a list as data and a message was given the
\* kind llll and the str() of the data
C20_Witness ==
    /\ line = <<"{", "M_text", "T_llll", "D_list", "}">>
    /\ parsed = [type |-> "llll", data |-> <<"[", "x", "]">>, raw |-> line]

\* the newest of the messages at the positions S
Newest(S) == CHOOSE i \in S : \A j \in S : i >= j

\* C22: get_latest_incoming returns the newest queued message of the type
\* asked for (the newest of all without a filter), None when there is none,
\* and leaves the queue, its order and the event as they were, so that what a
\* pop, a peek or a flush would return next is what it would have returned
\* before.
C22_PeekLatest ==
    [][\A c \in Callers, f \in Filters :
          GetLatestIncoming(c, f) =>
              LET S == IF f = NoFilter THEN DOMAIN queue ELSE Matching(queue, f) IN
              /\ ret'[c].val = (IF S = {} THEN NoneMsg ELSE queue[Newest(S)])
              /\ queue' = queue
              /\ event' = event
              /\ seq' = seq
              /\ \A g \in Filters :
                    /\ PopNext(queue', event', g) = PopNext(queue, event, g)
                    /\ GetLatest(queue', g) = GetLatest(queue, g)
              /\ FlushAll(queue') = FlushAll(queue)]_vars

\* a filtered peek returned the third message while an older message of its
\* type was queued in front of it
C22_Witness ==
    /\ Len(queue) = 3
    /\ queue[1].type = "llll" /\ queue[2].type = "info" /\ queue[3].type = "llll"
    /\ ret["A"].op = "peek"
    /\ ret["A"].f = "llll"
    /\ ret["A"].val = queue[3]

\* C23: the event is set exactly when the queue is not empty; a push sets it,
\* a pop leaves it set exactly when messages remain (so a filtered pop that
\* leaves messages of other types behind leaves it set), and a flush clears it.
C23_EventIffNonEmpty ==
    /\ [](event <=> queue # <<>>)
    /\ [][\A k \in Kinds : HandleIncomingMessage(k) => event']_vars
    /\ [][\A c \in Callers :
            (WaitPop(c) \/ \E f \in Filters : PopNextIncoming(c, f))
                => (event' <=> queue' # <<>>)]_vars
    /\ [][\A c \in Callers : (FlushIncoming(c) \/ \E T \in Timeouts : QueryFlush(c, T))
                                 => ~event' /\ queue' = <<>>]_vars

\* a pop with filter llll took the only llll message and left an info message
\* behind, and the event is still set
C23_Witness ==
    /\ ret["A"].op = "pop"
    /\ ret["A"].f = "llll"
    /\ ret["A"].val # NoneMsg
    /\ Len(queue) = 1
    /\ queue[1].type = "info"
    /\ queue[1].id < ret["A"].val.id
    /\ event

\* C29: a wait_for_incoming given a timeout <= 0 never reaches Event.wait: its
\* one pop returns the oldest matching message if there is one, and otherwise
\* the clock check that follows returns None and leaves the queue alone.  A
\* _request_max_and_wait with an empty command or a timeout <= 0 returns the
\* empty result and touches neither the connection nor the queue.
C29_ZeroTimeout ==
    /\ [](\A c \in Callers : pc[c] \in {"w_event", "w_blocked"} => tmo[c] > 0)
    /\ [][\A c \in Callers :
            (tmo[c] <= 0 /\ WaitPop(c)) =>
                LET S == IF mtype[c] = NoFilter THEN DOMAIN queue
                         ELSE Matching(queue, mtype[c])
                IN IF S = {} THEN pc'[c] = "w_check" /\ queue' = queue /\ event' = event
                   ELSE pc'[c] = "idle" /\ ret'[c].val = queue[Oldest(S)]]_vars
    /\ [][\A c \in Callers :
            (tmo[c] <= 0 /\ WaitCheck(c)) =>
                /\ pc'[c] = "idle"
                /\ ret'[c].val = NoneMsg
                /\ UNCHANGED qvars]_vars
    /\ [][\A c \in Callers, e \in BOOLEAN, T \in NoWaitTimeouts \cup {MaxTimeout} :
            (RequestMaxAndWait(c, e, T) /\ (e \/ T <= 0)) =>
                /\ pc'[c] = "idle"
                /\ ret'[c] = Ret("request", NoFilter, NoneMsg, 0, "none")
                /\ UNCHANGED <<qvars, sender, net>>]_vars

\* a wait for llll with timeout -1 returned None at once, the queue holding an
\* info message
C29_Witness ==
    /\ TimedOut("A")
    /\ ret["A"].op = "wait"
    /\ ret["A"].f = "llll"
    /\ lastTimeout["A"].tmo = -1
    /\ lastTimeout["A"].elapsed = 0
    /\ queue # <<>>
    /\ queue[1].type = "info"

\* the messages of the queue that are not of kind k, in their order
Others(q, k) == SelectSeq(q, LAMBDA m : m.type # k)

\* C24 as stated: a wait for llll called among info messages, during which an
\* llll message was pushed strictly before the deadline, does not return None.
C24_ReturnsIfPushedBeforeDeadline ==
    \A c \in Callers : (TimedOut(c) /\ ret[c].f = "llll") => ~arrived[c]

\* C24, amended: a wait for llll called while the queue holds info messages
\* only never blocks in Event.wait, always returns, returns None only at a
\* clock reading at or after its deadline, returns the oldest llll message
\* that one of its pop attempts finds queued, returns None only when its last
\* pop attempt found none, and its pops leave the messages of other kinds in
\* the queue in their order.
C24_FilteredWait ==
    /\ \A c \in Callers : [](InWait(c) => <>(pc[c] = "idle"))
    /\ [](\A c \in Callers :
            /\ pc[c] # "w_blocked"
            /\ InWait(c) => event
            /\ TimedOut(c) =>
                  \A i \in 1..Len(queue) :
                      queue[i].type = "llll" => queue[i].id > popMark[c])
    /\ [][\A c \in Callers :
            /\ (InWait(c) /\ pc'[c] = "idle" /\ ret'[c].val = NoneMsg)
                   => now >= start[c] + Max0(tmo[c])
            /\ WaitPop(c) =>
                  /\ Others(queue', "llll") = Others(queue, "llll")
                  /\ IF Matching(queue, "llll") = {}
                     THEN pc'[c] = "w_check" /\ queue' = queue
                     ELSE /\ pc'[c] = "idle"
                          /\ ret'[c].val = queue[Oldest(Matching(queue, "llll"))]]_vars

\* the wait returned an llll message that was pushed while it was polling,
\* and the info messages it was called among are all still queued
C24_Witness ==
    /\ ret["A"].op = "wait"
    /\ ret["A"].f = "llll"
    /\ ret["A"].val.type = "llll"
    /\ arrived["A"]
    /\ Len(queue) = 2
    /\ queue[1].id = 1
    /\ \A i \in 1..Len(queue) : queue[i].type = "info" /\ queue[i].id < ret["A"].val.id

\* C25: a query tool first flushes, then sends, then waits, each once: its
\* call begins with the flush, which leaves the queue empty; the send is its
\* next step, made with nothing queued that was received before the call;
\* the wait begins only out of a send that succeeded, and a send that failed
\* ends the call; while it waits the tool neither flushes nor sends again.
C25_FlushSendWait ==
    /\ [](\A c \in Callers :
            /\ pc[c] = "q_send" =>
                  /\ op[c] = "query"
                  /\ flushMark = mark[c]
                  /\ \A i \in 1..Len(queue) : queue[i].id > mark[c]
            /\ (op[c] = "query" /\ pc[c] # "q_send") => InWait(c))
    /\ [][\A c \in Callers :
            /\ (\E T \in Timeouts : QueryFlush(c, T)) =>
                  queue' = <<>> /\ pc'[c] = "q_send" /\ sender' = sender
            /\ QuerySend(c) =>
                  /\ UNCHANGED <<qvars, flushMark>>
                  /\ \/ pc'[c] = "w_deadline" /\ op'[c] = "query" /\ sender'.connected
                     \/ /\ pc'[c] = "idle"
                        /\ ret'[c] = Ret("query", NoFilter, NoneMsg, 0, "failed")
                        /\ ~sender'.connected
            /\ (op'[c] = "query" /\ pc'[c] = "w_deadline" /\ pc[c] # "w_deadline")
                  => pc[c] = "q_send"
            /\ (op[c] = "query" /\ InWait(c)) =>
                  sender' = sender /\ flushMark' = flushMark]_vars

\* a query tool was called with two messages queued, and returned the message
\* received after its flush
C25_Witness ==
    /\ QueryGot("A")
    /\ mark["A"] = 2
    /\ flushMark = 2
    /\ ret["A"].val.id = 3
    /\ ret["A"].sent = "ok"
    /\ queue = <<>>

\* the state of the inbound queue, and the state of the outbound connection
QueueState == <<queue, event, seq>>
TransportState == <<sender.sock, sender.connected>>

\* C26: transport state and queue state are separate: a send (with the
\* connect it makes when disconnected) and a close change only the socket and
\* the connected flag, never the queue or the event; a push, pop, peek, flush
\* and every step of a wait leave the socket and the flag as they were; a
\* failed send leaves the queue as it was.
C26_Separation ==
    [][/\ \A p \in Payloads, connOk, writeOk \in BOOLEAN :
              SenderSend(p, connOk, writeOk) => UNCHANGED QueueState
       /\ SenderClose => UNCHANGED QueueState
       /\ \A c \in Callers :
              /\ SendInfo(c) => UNCHANGED QueueState
              /\ (ret'[c] # ret[c] /\ ret'[c].sent = "failed") =>
                     /\ UNCHANGED QueueState
                     /\ ~sender'.connected
              /\ (ret'[c] # ret[c] /\ ret'[c].op # "send") => UNCHANGED TransportState
              /\ (pc'[c] # pc[c] /\ op'[c] # "send" /\ op[c] # "send") =>
                     UNCHANGED TransportState
       /\ QueueState' # QueueState => UNCHANGED <<TransportState, net>>]_vars

\* two messages are queued and the event is set after the connection was
\* closed and a send failed to reconnect
C26_Witness ==
    /\ Len(queue) = 2
    /\ event
    /\ net.last.op = "close"
    /\ ret["A"].op = "send"
    /\ ret["A"].sent = "failed"
    /\ ~sender.connected

\* the number of words of the first i words of s that are w
Count(s, w, i) == Cardinality({j \in 1..i : s[j] = w})

\* the brackets of s match and s has no brace
WellBracketed(s) ==
    /\ \A i \in 1..Len(s) : Count(s, "[", i) >= Count(s, "]", i)
    /\ Count(s, "[", Len(s)) = Count(s, "]", Len(s))
    /\ \A i \in 1..Len(s) : s[i] \notin {"{", "}"}

TenCommands ==
    <<"clear", "numvoices", "clefs", "stafflines", "numparts", "bgcolor", "notecolor",
      "staffcolor", "voicenames", "domain">>

\* the commands of s whose step succeeded, in order
RECURSIVE Succeeded(_, _)
Succeeded(s, res) ==
    IF s = <<>> THEN <<>>
    ELSE (IF Head(res).ok THEN <<Head(s)>> ELSE <<>>) \o Succeeded(Tail(s), Tail(res))

\* C28: new_default_score hands its ten commands to the sender one at a
\* time in the order clear, numvoices 1, clefs G, stafflines 5, numparts 1,
\* bgcolor, notecolor, staffcolor, voicenames, domain; a failed step does not
\* stop the sequence: the tool returns only after all ten were attempted; the
\* commands that reached the wire are those whose step succeeded, and the
\* returned 'ok' is True exactly when all ten succeeded.
C28_DefaultScore ==
    tool.name = "new_default_score" =>
        /\ Len(tool.tried) = tool.step
        /\ Len(tool.results) = tool.step
        /\ tool.step <= 10
        /\ net.calls = tool.step
        /\ \A i \in 1..tool.step :
               /\ Head(tool.tried[i]) = TenCommands[i]
               /\ tool.results[i].key = TenCommands[i]
        /\ tool.step >= 5 =>
               /\ tool.tried[2] = <<"numvoices", " ", "1">>
               /\ tool.tried[3] = <<"clefs", " ", "G">>
               /\ tool.tried[4] = <<"stafflines", " ", "5">>
               /\ tool.tried[5] = <<"numparts", " ", "1">>
        /\ [i \in 1..Len(net.wire) |-> net.wire[i][1]] =
               Succeeded(tool.tried, tool.results)
        /\ tool.pc = "done" =>
               /\ tool.step = 10
               /\ tool.out \in {"True", "False"}
               /\ tool.out = "True" <=> \A i \in 1..10 : tool.results[i].ok
               /\ tool.out = "True" <=> Len(net.wire) = 10

\* the third and the seventh command failed, the other eight were sent, and
\* the tool returned 'ok' False
C28_Witness ==
    /\ tool.name = "new_default_score"
    /\ tool.pc = "done"
    /\ tool.out = "False"
    /\ \A i \in 1..10 : tool.results[i].ok <=> i \notin {3, 7}
    /\ Len(net.wire) = 8

\* C21: no inbound line is dropped or fatal: whenever the reader of a
\* connection is between two messages it has appended one message for every
\* non-blank line it has read, whatever the line is, and it leaves its loop
\* only at the end of the stream.
C21_NeverDroppedNeverFatal ==
    \A c \in Conns :
        /\ conn[c].pc = "done" => conn[c].eof
        /\ conn[c].pc \in {"loop", "recv", "done"} =>
               Len(AtsOf(c)) = Len(LinesOf(SubSeq(conn[c].sent, 1, conn[c].rd)))

\* a thread has seen a write fail, a connect fail or a socket closed and has
\* not yet cleared the flag
Clearing == \E c \in Callers : inCall[c].pc \in {"except", "refused", "closing"}

\* C30: whenever connected is True, and no thread is on its way to clear the
\* flag, self.socket is the socket on which the most recent connect succeeded
\* and that socket is still connected: it has not failed a write and has not
\* been closed; also with several threads inside send() and close().
C30_FlagConsistency ==
    (client.connected /\ ~Clearing) =>
        /\ client.socket = client.lastOk
        /\ client.st[client.socket] = "connected"

====
